---------------------------- MODULE Spec2Model ----------------------------
(***************************************************************************)
(* Model of sense_music/music_display.py: the audio callback (AGC, limiter, *)
(* band levels), the ThreadSafeState store shared with the render loop, and *)
(* the MetadataReader.                                                      *)
(*                                                                          *)
(* Floating-point quantities are fixed-point integers:                      *)
(*   samples and magnitudes   1 unit = 0.001   (1.0 is 1000)                *)
(*   gain                     1 unit = 0.001   (1.0 is 1000)                *)
(*   RMS                      1 unit = 0.0001                               *)
(*   band levels              1 unit = 0.001   (1.0 is 1000)                *)
(* Divisions truncate towards zero.                                         *)
(***************************************************************************)
EXTENDS Integers, Sequences, FiniteSets, TLC

VARIABLES
    \* CONFIG
    n_bands,            \* CONFIG.n_bands
    block_size,         \* CONFIG.block_size
    \* process-wide state
    HANN_WINDOW,        \* _HANN_WINDOW: size of the cached window, 0 for None
    \* compute_levels applied to a block on its own
    block,              \* the argument
    levels_out,         \* the returned value
    lv_done,            \* whether compute_levels has returned
    \* the clock: time.time() in steps of 1.5 s
    now,
    \* STATE (ThreadSafeState)
    levels_smooth,      \* _levels_smooth
    audio_last_active,  \* _audio_last_active
    ambient_index,      \* _ambient_index
    agc_gain,           \* _agc_gain
    stream_active,      \* _stream_active
    last_error,         \* _last_error
    silence_detected,   \* the attribute silence_detected the callback assigns
    \* audio callbacks run one after the other
    calls,              \* callbacks run so far
    cb_limited,         \* the frame the last callback handed to compute_levels
    seen,               \* the pairs (silence flag, audio_recent) callbacks have left
    \* the audio callback thread and the main thread, statement by statement
    lock,               \* STATE._lock: its owner and its recursion count
    stream_running,     \* the capture stream is started and invokes the callback
    cb_pc,              \* where the running callback is, "idle" between callbacks
    cb_in,              \* indata after the clip to [-1, 1]
    cb_gain,            \* current_gain
    cb_lev,             \* levels
    cb_cur,             \* current_levels
    rl_pc,              \* where the main thread is
    rl_now,             \* now
    rl_track,           \* the track get_track returned, fresh, "None" otherwise
    rl_recent,          \* audio_recent
    rl_lv,              \* lv of draw_levels
    rl_idx,             \* current_index of ambient_step
    last_shown_track,
    no_audio_shown,
    consecutive_errors,
    attempt,            \* attempt of start_audio_stream
    rl_ret,             \* the caller of start_audio_stream
    stream,             \* self.stream
    ticks,              \* iterations of the main loop begun
    unlocked,           \* fields of STATE accessed without the lock held
    written,            \* every vector assigned to _levels_smooth so far
    feed,               \* the pieces the writer puts into the metadata pipe
    rd_rest,            \* the bytes of the feed not yet read
    pipe,               \* self.pipe
    buffer,             \* self.buffer
    last_artist,
    last_title,
    last_update,
    rd_pc,              \* where get_track is
    rd_result,          \* what the last get_track returned
    rd_failed,          \* the read loop ended on end-of-stream or on an error and
                        \* no chunk was read since
    rd_log,             \* the items handled: text, track state before and after, time
    \* the main loop, one iteration at a time
    idle_ticks,         \* iterations that ran ambient_step
    failed_run,         \* iterations in a row that ended in the handler of line 965
    x_shown_count,      \* show_no_audio_x calls since an iteration saw recent audio
    tick_did,           \* what the last iteration saw and did
    \* volume ducking
    saved_volume,       \* STATE._saved_volume, <<>> for None, or <<the volume in percent>>
    ducked_until,       \* STATE._ducked_until, in half seconds
    sink_volume         \* the volume of the PulseAudio sink, in percent

configVars == <<n_bands, block_size>>

levelVars == <<block, levels_out, lv_done>>

storeVars == <<levels_smooth, audio_last_active, ambient_index, agc_gain,
               stream_active, last_error, silence_detected>>

seqVars == <<calls, cb_limited, seen>>

cbVars == <<cb_pc, cb_in, cb_gain, cb_lev, cb_cur>>

rlVars == <<rl_pc, rl_now, rl_track, rl_recent, rl_lv, rl_idx, last_shown_track,
            no_audio_shown, consecutive_errors, attempt, rl_ret, stream, ticks>>

readerVars == <<feed, rd_rest, pipe, buffer, last_artist, last_title, last_update, rd_pc,
                rd_result, rd_failed, rd_log>>

loopVars == <<idle_ticks, failed_run, x_shown_count, tick_did>>

duckVars == <<saved_volume, ducked_until, sink_volume>>

threadVars == <<lock, stream_running, cbVars, rlVars, unlocked, written>>

vars == <<configVars, HANN_WINDOW, levelVars, now, storeVars, seqVars, threadVars, readerVars,
          loopVars, duckVars>>

----------------------------------------------------------------------------
(* Bounds of the model *)

MaxBands == 3
MaxFrames == 6
MaxStereoFrames == 2

MaxCbBands == 2
MaxCbFrames == 4
MaxCalls == 4
MaxTime == 1
MaxRuns == 2
MaxTicks == 1
MaxPieces == 2
MaxIdleTicks == 17
MaxLoopTime == 1
MaxChunkPieces == 2

(* Sample values of the blocks handed to compute_levels *)
LevelSamples == {-2000, 0, 30}

(* The (left, right) samples of the frames the audio subsystem delivers:
   silence, a faint signal, opposite channels, a moderate and an overdriven one *)
CbPairs == {<<0, 0>>, <<2, 0>>, <<30, -30>>, <<30, 30>>, <<-1500, 300>>}

----------------------------------------------------------------------------
(* CONFIG, in the model's units *)

(* seconds *)
no_audio_timeout == 10

(* seconds *)
metadata_timeout == 20

(* half seconds: audio is recent for 1.5 s *)
RecentHalfSeconds == 3

audio_max_retries == 3

agc_target_rms == 20
agc_max_gain == 4000
agc_min_gain == 250
agc_attack == 100
agc_release == 10
limit_threshold == 250
smoothing == 300

----------------------------------------------------------------------------
(* Fixed-point arithmetic *)

(* 1.0 in the model's units *)
Unit == 10 * 10 * 10

Trunc(a, d) == IF a >= 0 THEN a \div d ELSE -((-a) \div d)

Abs(a) == IF a >= 0 THEN a ELSE -a

Min(a, b) == IF a <= b THEN a ELSE b

Max(a, b) == IF a >= b THEN a ELSE b

Clip(x, lo, hi) == Max(lo, Min(x, hi))

(* the same sequence, as an explicit tuple *)
Tuple(s) == s \o <<>>

(* the float NaN, a value outside every range the model's numbers take *)
NaN == -(10 * 1000 * 1000)

IsNaN(x) == x = NaN

RECURSIVE SumTo(_, _)
SumTo(s, n) == IF n = 0 THEN 0 ELSE s[n] + SumTo(s, n - 1)

SumSeq(s) == SumTo(s, Len(s))

RECURSIVE ISqrtIn(_, _, _)
ISqrtIn(n, lo, hi) ==
    IF lo >= hi THEN lo
    ELSE LET mid == (lo + hi + 1) \div 2
         IN  IF mid * mid <= n THEN ISqrtIn(n, mid, hi) ELSE ISqrtIn(n, lo, mid - 1)

(* floor of the square root *)
ISqrt(n) == ISqrtIn(n, 0, 46340)

(* 1000 * cos(2 pi j / K) and 1000 * sin(2 pi j / K), K = 1..8 *)
CosTab ==
    << <<1000>>,
       <<1000, -1000>>,
       <<1000, -500, -500>>,
       <<1000, 0, -1000, 0>>,
       <<1000, 309, -809, -809, 309>>,
       <<1000, 500, -500, -1000, -500, 500>>,
       <<1000, 623, -223, -901, -901, -223, 623>>,
       <<1000, 707, 0, -707, -1000, -707, 0, 707>> >>

SinTab ==
    << <<0>>,
       <<0, 0>>,
       <<0, 866, -866>>,
       <<0, 1000, 0, -1000>>,
       <<0, 951, 588, -588, -951>>,
       <<0, 866, 866, 0, -866, -866>>,
       <<0, 782, 975, 434, -434, -975, -782>>,
       <<0, 707, 1000, 707, 0, -707, -1000, -707>> >>

Cos1000(K, j) == CosTab[K][(j % K) + 1]

Sin1000(K, j) == SinTab[K][(j % K) + 1]

(* 1000 * log10(k), k = 1..10 *)
LogTab == <<0, 301, 477, 602, 699, 778, 845, 903, 954, 1000>>

RECURSIVE Log10Pos(_, _, _)
Log10Pos(m, p, d) ==
    IF m >= 10 * p THEN Log10Pos(m, 10 * p, d + 1)
    ELSE LET k == m \div p
         IN  d * 1000 + LogTab[k] + ((LogTab[k + 1] - LogTab[k]) * (m - k * p)) \div p

(* 1000 * log10(m), m >= 1, piecewise linear between the table's points *)
Log10x1000(m) == Log10Pos(m, 1, 0)

----------------------------------------------------------------------------
(* compute_levels *)

Zeros(n) == Tuple([i \in 1..n |-> 0])

(* np.hanning(M)[n], n from 0 *)
Hanning(M, n) == IF M = 1 THEN Unit ELSE (Unit - Cos1000(M - 1, n)) \div 2

(* get_hann_window: the size of the window cached after the call *)
get_hann_window(cached, size) == IF cached = 0 \/ cached # size THEN size ELSE cached

(* block.mean(axis=1) for two or more channels, block.reshape(-1) otherwise *)
Mono(b) ==
    IF b.chans > 1
    THEN Tuple([i \in 1..Len(b.data) |-> Trunc(SumSeq(b.data[i]), b.chans)])
    ELSE Tuple([i \in 1..Len(b.data) |-> b.data[i][1]])

Windowed(mono) ==
    Tuple([i \in 1..Len(mono) |-> Trunc(mono[i] * Hanning(Len(mono), i - 1), Unit)])

(* |rfft(x)[k]| *)
RfftMag(x, k) ==
    LET M  == Len(x)
        re == Trunc(SumSeq([i \in 1..M |-> x[i] * Cos1000(M, k * (i - 1))]), Unit)
        im == Trunc(SumSeq([i \in 1..M |-> -(x[i] * Sin1000(M, k * (i - 1)))]), Unit)
    IN  ISqrt(re * re + im * im)

(* np.fft.rfft raises ValueError on an empty input *)
RfftRaises(x) == Len(x) = 0

(* np.abs(np.fft.rfft(x))[1:] *)
Mag(x) == Tuple([k \in 1..(Len(x) \div 2) |-> RfftMag(x, k)])

(* the slice of mag that band i (from 0) averages *)
BandStart(i, length, n) == i * Max(1, length \div n)

BandEnd(i, length, n) ==
    IF i < n - 1 THEN (i + 1) * Max(1, length \div n) ELSE length

(* s[start:end] of Python, start and end from 0: indices past the end are cut *)
PySlice(s, start, end) ==
    LET lo == Min(start, Len(s))
        hi == Min(end, Len(s))
    IN  IF hi <= lo THEN <<>> ELSE SubSeq(s, lo + 1, hi)

(* np.mean: NaN for an empty slice *)
NpMean(s) == IF Len(s) = 0 THEN NaN ELSE SumSeq(s) \div Len(s)

BandMean(mag, i, n) ==
    LET start == BandStart(i, Len(mag), n)
        end   == BandEnd(i, Len(mag), n)
    IN  IF end <= start THEN 0 ELSE NpMean(PySlice(mag, start, end))

(* 20 * log10(max(band, 1e-8)), in 0.001 dB; a band below one unit is at or
   above the floor 1e-8 and below 0.001, between -160 dB and -60 dB;
   np.maximum and np.log10 propagate NaN *)
BandDb(m) ==
    IF IsNaN(m) THEN NaN
    ELSE IF m <= 0 THEN -160 * Unit ELSE 20 * (Log10x1000(m) - 3 * Unit)

NormDb(db) == IF IsNaN(db) THEN NaN ELSE Trunc(db + 60 * Unit, 60)

(* np.clip leaves NaN as it is *)
NpClip(x, lo, hi) == IF IsNaN(x) THEN NaN ELSE Clip(x, lo, hi)

Level(m) == NpClip(NormDb(BandDb(m)), 0, Unit)

Returned(v) == [raised |-> FALSE, val |-> v]

Raised == [raised |-> TRUE, val |-> <<>>]

(* the value compute_levels returns, or the error it raises *)
compute_levels(b, n) ==
    LET mono == Mono(b)
    IN  IF Len(mono) = 0 THEN Returned(Zeros(n))
        ELSE LET windowed == Windowed(mono)
             IN  IF RfftRaises(windowed) THEN Raised
                 ELSE LET mag == Mag(windowed)
                      IN  IF Len(mag) <= 0 THEN Returned(Zeros(n))
                          ELSE Returned(Tuple([i \in 1..n |->
                                           Level(BandMean(mag, i - 1, n))]))

----------------------------------------------------------------------------
(* compute_levels on its own: any block, any band count *)

RECURSIVE SeqsOf(_, _)
SeqsOf(S, n) ==
    IF n = 0 THEN {<<>>}
    ELSE {Append(s, x) : s \in SeqsOf(S, n - 1), x \in S}

SeqsUpTo(S, n) == UNION {SeqsOf(S, k) : k \in 0..n}

MonoBlocks == {[chans |-> 1, data |-> d] : d \in SeqsUpTo(SeqsOf(LevelSamples, 1), MaxFrames)}

StereoBlocks ==
    {[chans |-> 2, data |-> d] : d \in SeqsUpTo(SeqsOf(LevelSamples, 2), MaxStereoFrames)}

ComputeLevels ==
    /\ ~lv_done
    /\ levels_out' = compute_levels(block, n_bands)
    /\ HANN_WINDOW' = IF Len(Mono(block)) = 0 THEN HANN_WINDOW
                      ELSE get_hann_window(HANN_WINDOW, Len(Mono(block)))
    /\ lv_done' = TRUE
    /\ UNCHANGED <<configVars, duckVars, readerVars, loopVars, block, now, storeVars, seqVars, threadVars>>

----------------------------------------------------------------------------
(* audio_callback *)

FrameSize(f) == Len(f.data) * f.chans

FrameSamples(f) == {f.data[i][c] : i \in 1..Len(f.data), c \in 1..f.chans}

(* np.clip(indata, -1.0, 1.0) *)
ClipUnit(f) ==
    [chans |-> f.chans,
     data  |-> Tuple([i \in 1..Len(f.data) |->
                   Tuple([c \in 1..f.chans |-> Clip(f.data[i][c], -Unit, Unit)])])]

(* sqrt(mean(indata ** 2)) in units of 0.0001, 0 for an empty frame *)
Rms(f) ==
    IF FrameSize(f) = 0 THEN 0
    ELSE ISqrt((SumSeq([i \in 1..Len(f.data) |->
                   SumSeq([c \in 1..f.chans |-> f.data[i][c] * f.data[i][c]])]) * 100)
               \div FrameSize(f))

(* rms > 1e-6 *)
AboveFloor(rms) == rms * 100 > 1

(* TargetGain without the clamp of line 462 *)
TargetGain_unclamped(rms) == Trunc(agc_target_rms * 10 * Unit, rms)

(* agc_target_rms / rms, clamped to [agc_min_gain, agc_max_gain] *)
TargetGain(rms) ==
    Max(Min(Trunc(agc_target_rms * 10 * Unit, rms), agc_max_gain), agc_min_gain)

(* AgcStep with a coefficient above 1: the step goes past the target *)
AgcStep_overshoots(current_gain, rms) ==
    IF AboveFloor(rms)
    THEN LET target_gain == TargetGain(rms)
         IN  IF target_gain > current_gain
             THEN current_gain + Trunc((Unit + agc_attack) * (target_gain - current_gain), Unit)
             ELSE current_gain + Trunc((Unit + agc_release) * (target_gain - current_gain), Unit)
    ELSE current_gain

(* the gain after the callback's AGC step *)
AgcStep(current_gain, rms) ==
    IF AboveFloor(rms)
    THEN LET target_gain == TargetGain(rms)
         IN  IF target_gain > current_gain
             THEN current_gain + Trunc(agc_attack * (target_gain - current_gain), Unit)
             ELSE current_gain + Trunc(agc_release * (target_gain - current_gain), Unit)
    ELSE current_gain

(* Limited with the clip done before the gain is applied *)
Limited_clip_first(f, gain) ==
    [chans |-> f.chans,
     data  |-> Tuple([i \in 1..Len(f.data) |->
                   Tuple([c \in 1..f.chans |->
                       Trunc(Clip(f.data[i][c], -limit_threshold, limit_threshold) * gain,
                             Unit)])])]

(* indata * current_gain, then np.clip to +-limit_threshold *)
Limited(f, gain) ==
    [chans |-> f.chans,
     data  |-> Tuple([i \in 1..Len(f.data) |->
                   Tuple([c \in 1..f.chans |->
                       Clip(Trunc(f.data[i][c] * gain, Unit),
                            -limit_threshold, limit_threshold)])])]

(* Smooth with the previous vector at full weight *)
Smooth_adds(current_levels, levels) ==
    Tuple([i \in 1..Len(current_levels) |->
        IF IsNaN(current_levels[i]) \/ IsNaN(levels[i]) THEN NaN
        ELSE Trunc(Unit * current_levels[i] + (Unit - smoothing) * levels[i], Unit)])

(* smoothing * current_levels + (1 - smoothing) * levels *)
Smooth(current_levels, levels) ==
    Tuple([i \in 1..Len(current_levels) |->
        IF IsNaN(current_levels[i]) \/ IsNaN(levels[i]) THEN NaN
        ELSE Trunc(smoothing * current_levels[i] + (Unit - smoothing) * levels[i], Unit)])

HasNaN(levels) == \E i \in 1..Len(levels) : IsNaN(levels[i])

(* MeanBelow with the threshold of MeanAbove *)
MeanBelow_wide(levels) == ~HasNaN(levels) /\ SumSeq(levels) * 100 < Len(levels) * Unit

(* np.mean(levels) > 0.01 and np.mean(levels) < 0.001; both false for NaN *)
MeanAbove(levels) == ~HasNaN(levels) /\ SumSeq(levels) * 100 > Len(levels) * Unit

MeanBelow(levels) == ~HasNaN(levels) /\ SumSeq(levels) * Unit < Len(levels) * Unit

(* the frames of block_size rows the stream delivers, two channels *)
CbFrames == {[chans |-> 2, data |-> Tuple([i \in 1..block_size |-> p])] : p \in CbPairs}

InitStore ==
    /\ levels_smooth = Zeros(n_bands)
    /\ audio_last_active = 0
    /\ ambient_index = 0
    /\ agc_gain = Unit
    /\ stream_active = FALSE
    /\ last_error = "None"
    /\ silence_detected = FALSE

(* the block sizes and band counts of the stream: every band has a bin *)
InitConfig ==
    /\ n_bands \in 1..MaxCbBands
    /\ block_size \in (2 * n_bands)..MaxCbFrames
    /\ HANN_WINDOW = 0

(* time.time() when the program starts: further from the initial timestamp 0.0
   than no_audio_timeout, in steps of 1.5 s *)
StartTime == (2 * no_audio_timeout) \div 3 + 1

(* no block handed to compute_levels on its own *)
NoLevels ==
    /\ block = [chans |-> 1, data |-> <<>>]
    /\ levels_out = Returned(<<>>)
    /\ lv_done = TRUE

NoCalls ==
    /\ calls = 0
    /\ cb_limited = [chans |-> 2, data |-> <<>>]
    /\ seen = {<<FALSE, FALSE>>}

Free == [owner |-> "free", count |-> 0]

InitCb ==
    /\ cb_pc = "idle"
    /\ cb_in = [chans |-> 2, data |-> <<>>]
    /\ cb_gain = Unit
    /\ cb_lev = <<>>
    /\ cb_cur = <<>>

InitRl ==
    /\ rl_pc = "init"
    /\ rl_now = 0
    /\ rl_track = "None"
    /\ rl_recent = FALSE
    /\ rl_lv = <<>>
    /\ rl_idx = 0
    /\ last_shown_track = "None"
    /\ no_audio_shown = FALSE
    /\ consecutive_errors = 0
    /\ attempt = 0
    /\ rl_ret = "start"
    /\ stream = "None"
    /\ ticks = 0

(* no iteration of the main loop has run *)
NoTick == [recent |-> FALSE, fresh |-> FALSE, track |-> "None", announced |-> FALSE,
           failed |-> FALSE]

NoTicks ==
    /\ idle_ticks = 0
    /\ failed_run = 0
    /\ x_shown_count = 0
    /\ tick_did = NoTick

(* lines 170-171: no volume saved, no expiry; the sink at full volume *)
NoDuck ==
    /\ saved_volume = <<>>
    /\ ducked_until = 0
    /\ sink_volume = 100

InitThreads ==
    /\ lock = Free
    /\ stream_running = FALSE
    /\ InitCb
    /\ InitRl
    /\ unlocked = {}
    /\ written = {levels_smooth}

(* Activity with a silent frame also ending the recent activity *)
Activity_silence_resets(levels) ==
    IF MeanAbove(levels)
    THEN audio_last_active' = now /\ silence_detected' = FALSE
    ELSE IF MeanBelow(levels)
    THEN silence_detected' = TRUE /\ audio_last_active' = 0
    ELSE UNCHANGED <<audio_last_active, silence_detected>>

(* lines 480-486: the activity timestamp and the silence flag *)
Activity(levels) ==
    IF MeanAbove(levels)
    THEN audio_last_active' = now /\ silence_detected' = FALSE
    ELSE IF MeanBelow(levels)
    THEN silence_detected' = TRUE /\ UNCHANGED audio_last_active
    ELSE UNCHANGED <<audio_last_active, silence_detected>>

(* one run of audio_callback on indata, no other thread running *)
audio_callback(indata) ==
    LET clipped      == ClipUnit(indata)
        rms          == Rms(clipped)
        current_gain == AgcStep(agc_gain, rms)
        limited      == Limited(clipped, current_gain)
        levels       == compute_levels(limited, n_bands).val
    IN  /\ agc_gain' = current_gain
        /\ cb_limited' = limited
        /\ HANN_WINDOW' = IF FrameSize(limited) = 0 THEN HANN_WINDOW
                          ELSE get_hann_window(HANN_WINDOW, Len(limited.data))
        /\ levels_smooth' = Smooth(levels_smooth, levels)
        /\ Activity(levels)
        /\ UNCHANGED <<ambient_index, stream_active, last_error>>

Callback ==
    /\ calls < MaxCalls
    /\ \E indata \in CbFrames : audio_callback(indata)
    /\ calls' = calls + 1
    /\ seen' = seen \cup {<<silence_detected',
                             3 * (now - audio_last_active') < RecentHalfSeconds>>}
    /\ UNCHANGED <<configVars, duckVars, readerVars, loopVars, levelVars, now, threadVars>>

Tick ==
    /\ now < StartTime + MaxTime
    /\ now' = now + 1
    /\ UNCHANGED <<configVars, duckVars, readerVars, loopVars, HANN_WINDOW, levelVars, storeVars, seqVars, threadVars>>

----------------------------------------------------------------------------
(* The callback thread and the main thread, one statement at a time.  Every *)
(* property of ThreadSafeState is "with self._lock: <copy or assignment>":  *)
(* a thread first acquires the lock, then does the access and releases.       *)

Acquired(t) == [owner |-> t, count |-> lock.count + 1]

Released == IF lock.count <= 1 THEN Free ELSE [lock EXCEPT !.count = lock.count - 1]

(* threading.RLock: free, or already owned by the thread that asks *)
CanAcquire(t) == lock.owner \in {"free", t}

(* the fields read or written so far by a thread that did not hold the lock *)
Touch(who, fld) == IF lock.owner = who THEN unlocked ELSE unlocked \cup {fld}

(* the statements of audio_callback that enter a property of STATE *)
CbSites == {"read_gain", "write_gain", "read_levels", "write_levels", "write_active"}

(* the rows of a frame while both threads run, odd row then even row:
   silence, and a tone at half the sample rate *)
RunRows == {<<<<0, 0>>, <<0, 0>>>>, <<<<30, 30>>, <<-30, -30>>>>}

(* the frames of block_size rows the stream delivers while both threads run *)
RunFrames ==
    {[chans |-> 2, data |-> Tuple([i \in 1..block_size |-> r[2 - (i % 2)]])] :
        r \in RunRows}

NoFrame == [chans |-> 2, data |-> <<>>]

(* the callback goes on at statement pc; its locals end with the call *)
CbGoto(pc) ==
    /\ cb_pc' = pc
    /\ cb_in' = IF pc = "idle" THEN NoFrame ELSE cb_in
    /\ cb_gain' = IF pc = "idle" THEN Unit ELSE cb_gain
    /\ cb_lev' = IF pc = "idle" THEN <<>> ELSE cb_lev
    /\ cb_cur' = IF pc = "idle" THEN <<>> ELSE cb_cur

(* lines 446-456: the stream invokes the callback *)
CbInvoke ==
    /\ cb_pc = "idle"
    /\ stream_running
    /\ calls < MaxRuns
    /\ \E indata \in RunFrames : cb_in' = ClipUnit(indata)
    /\ cb_pc' = "read_gain"
    /\ calls' = calls + 1
    /\ UNCHANGED <<configVars, duckVars, readerVars, loopVars, HANN_WINDOW, levelVars, now, storeVars, cb_limited, seen, lock,
                   stream_running, cb_gain, cb_lev, cb_cur, rlVars, unlocked, written>>

CbAcquire ==
    /\ cb_pc \in CbSites
    /\ lock.owner # "cb"
    /\ CanAcquire("cb")
    /\ lock' = Acquired("cb")
    /\ UNCHANGED <<configVars, duckVars, readerVars, loopVars, HANN_WINDOW, levelVars, now, storeVars, seqVars,
                   stream_running, cbVars, rlVars, unlocked, written>>

(* lines 459-467: current_gain = STATE.agc_gain, then the AGC step *)
CbReadGain ==
    /\ cb_pc = "read_gain"
    /\ lock.owner = "cb"
    /\ unlocked' = Touch("cb", "agc_gain")
    /\ cb_gain' = AgcStep(agc_gain, Rms(cb_in))
    /\ lock' = Released
    /\ cb_pc' = IF AboveFloor(Rms(cb_in)) THEN "write_gain" ELSE "levels"
    /\ UNCHANGED <<configVars, duckVars, readerVars, loopVars, HANN_WINDOW, levelVars, now, storeVars, seqVars,
                   stream_running, cb_in, cb_lev, cb_cur, rlVars, written>>

(* line 469: STATE.agc_gain = current_gain *)
CbWriteGain ==
    /\ cb_pc = "write_gain"
    /\ lock.owner = "cb"
    /\ unlocked' = Touch("cb", "agc_gain")
    /\ agc_gain' = cb_gain
    /\ lock' = Released
    /\ cb_pc' = "levels"
    /\ UNCHANGED <<configVars, duckVars, readerVars, loopVars, HANN_WINDOW, levelVars, now, levels_smooth,
                   audio_last_active, ambient_index, stream_active, last_error,
                   silence_detected, seqVars, stream_running, cb_in, cb_gain, cb_lev,
                   cb_cur, rlVars, written>>

(* lines 472-476: gain, limiter, compute_levels *)
CbLevels ==
    /\ cb_pc = "levels"
    /\ LET limited == Limited(cb_in, cb_gain)
       IN  /\ cb_lev' = compute_levels(limited, n_bands).val
           /\ HANN_WINDOW' = IF FrameSize(limited) = 0 THEN HANN_WINDOW
                             ELSE get_hann_window(HANN_WINDOW, Len(limited.data))
    /\ cb_pc' = "read_levels"
    /\ UNCHANGED <<configVars, duckVars, readerVars, loopVars, levelVars, now, storeVars, seqVars, lock, stream_running,
                   cb_in, cb_gain, cb_cur, rlVars, unlocked, written>>

(* line 477: current_levels = STATE.levels_smooth, a copy *)
CbReadLevels ==
    /\ cb_pc = "read_levels"
    /\ lock.owner = "cb"
    /\ unlocked' = Touch("cb", "levels_smooth")
    /\ cb_cur' = levels_smooth
    /\ lock' = Released
    /\ cb_pc' = "write_levels"
    /\ UNCHANGED <<configVars, duckVars, readerVars, loopVars, HANN_WINDOW, levelVars, now, storeVars, seqVars,
                   stream_running, cb_in, cb_gain, cb_lev, rlVars, written>>

(* after the assignment of levels_smooth: lines 481-486 *)
AfterLevels ==
    IF MeanAbove(cb_lev) THEN "write_active"
    ELSE IF MeanBelow(cb_lev) THEN "write_silence" ELSE "idle"

(* line 478 with the assignment done one band at a time, the lock released
   between two bands *)
CbWriteLevels_in_place ==
    /\ cb_pc = "write_levels"
    /\ lock.owner = "cb"
    /\ unlocked' = Touch("cb", "levels_smooth")
    /\ LET new  == Smooth(cb_cur, cb_lev)
           todo == {i \in 1..Len(new) : levels_smooth[i] # new[i]}
       IN  /\ written' = written \cup {new}
           /\ IF todo = {}
              THEN levels_smooth' = new /\ CbGoto(AfterLevels)
              ELSE LET i == CHOOSE j \in todo : \A k \in todo : j <= k
                   IN  /\ levels_smooth' = [levels_smooth EXCEPT ![i] = new[i]]
                       /\ CbGoto(IF todo = {i} THEN AfterLevels ELSE "write_levels")
    /\ lock' = Released
    /\ UNCHANGED <<configVars, duckVars, readerVars, loopVars, HANN_WINDOW, levelVars, now, audio_last_active,
                   ambient_index, agc_gain, stream_active, last_error, silence_detected,
                   seqVars, stream_running, rlVars>>

(* line 478: STATE.levels_smooth = smoothing * current_levels + ..., the whole
   vector replaced by one assignment *)
CbWriteLevels ==
    /\ cb_pc = "write_levels"
    /\ lock.owner = "cb"
    /\ unlocked' = Touch("cb", "levels_smooth")
    /\ levels_smooth' = Smooth(cb_cur, cb_lev)
    /\ written' = written \cup {Smooth(cb_cur, cb_lev)}
    /\ lock' = Released
    /\ CbGoto(AfterLevels)
    /\ UNCHANGED <<configVars, duckVars, readerVars, loopVars, HANN_WINDOW, levelVars, now, audio_last_active,
                   ambient_index, agc_gain, stream_active, last_error, silence_detected,
                   seqVars, stream_running, rlVars>>

(* line 483: STATE.audio_last_active = time.time() *)
CbWriteActive ==
    /\ cb_pc = "write_active"
    /\ lock.owner = "cb"
    /\ unlocked' = Touch("cb", "audio_last_active")
    /\ audio_last_active' = now
    /\ lock' = Released
    /\ cb_pc' = "write_silence"
    /\ UNCHANGED <<configVars, duckVars, readerVars, loopVars, HANN_WINDOW, levelVars, now, levels_smooth, ambient_index,
                   agc_gain, stream_active, last_error, silence_detected, seqVars,
                   stream_running, cb_in, cb_gain, cb_lev, cb_cur, rlVars, written>>

(* lines 484 and 486: STATE.silence_detected = ...; ThreadSafeState has no
   property of that name, the assignment sets a plain attribute *)
CbWriteSilence ==
    /\ cb_pc = "write_silence"
    /\ unlocked' = Touch("cb", "silence_detected")
    /\ silence_detected' = ~MeanAbove(cb_lev)
    /\ CbGoto("idle")
    /\ UNCHANGED <<configVars, duckVars, readerVars, loopVars, HANN_WINDOW, levelVars, now, levels_smooth,
                   audio_last_active, ambient_index, agc_gain, stream_active, last_error,
                   seqVars, lock, stream_running, rlVars, written>>

CbStep ==
    \/ CbInvoke
    \/ CbAcquire
    \/ CbReadGain
    \/ CbWriteGain
    \/ CbLevels
    \/ CbReadLevels
    \/ CbWriteLevels
    \/ CbWriteActive
    \/ CbWriteSilence

----------------------------------------------------------------------------
(* The main thread: start_audio_stream, then _main_loop, then _shutdown *)

(* the statements of the main thread that enter a property of STATE *)
RlSites == {"set_active", "set_error", "read_active", "read_active2", "read_levels",
            "read_ambient", "write_ambient", "read_stream"}

(* the statements inside the try block of _main_loop, lines 916-979 *)
LoopPcs == {"tick", "read_active", "announce", "read_active2", "show_x", "read_levels",
            "draw", "read_ambient", "ambient_draw", "write_ambient", "sleep", "error",
            "read_stream"}

(* the statements of start_audio_stream *)
StartPcs == {"pick", "set_active", "set_error"}

(* the tail of the buffer kept when it holds no start marker, line 647 *)
TAIL_CAP == 1024

(* the bytes asked of os.read, line 634 *)
READ_MAX == 4096

(* the consecutive errors the main loop survives, line 969 *)
MAX_ERRORS == 10

(* len(SPINNER_PATH) *)
SPINNER_LEN == 8 * 8

(* the step ambient_step advances the cursor by *)
AMBIENT_STEP == 4

cbFrame == <<configVars, duckVars, readerVars, loopVars, HANN_WINDOW, levelVars, now, seqVars, cbVars, written>>

(* the locals of one iteration of the loop: now, the track, audio_recent, lv,
   current_index *)
iterVars == <<rl_now, rl_track, rl_recent, rl_lv, rl_idx>>

(* the main thread goes on at statement pc; past the body of the iteration
   its locals are dead *)
RlGoto(pc) ==
    /\ rl_pc' = pc
    /\ IF pc \in {"sleep", "error", "shutdown", "killed"}
       THEN /\ rl_now' = 0
            /\ rl_track' = "None"
            /\ rl_recent' = FALSE
            /\ rl_lv' = <<>>
            /\ rl_idx' = 0
       ELSE UNCHANGED iterVars

RlAcquire ==
    /\ rl_pc \in RlSites
    /\ lock.owner # "rl"
    /\ CanAcquire("rl")
    /\ lock' = Acquired("rl")
    /\ UNCHANGED <<cbFrame, storeVars, stream_running, rlVars, unlocked>>

(* where start_audio_stream returns to: start() goes on to the main loop,
   the restart of line 977 to the sleep of line 979 *)
Return == IF rl_ret = "start" THEN "tick" ELSE "sleep"

(* the retry loop going one round further: range(audio_max_retries + 1) *)
RlPick_one_more ==
    /\ rl_pc \in {"init", "pick"}
    /\ IF attempt <= audio_max_retries
       THEN \E outcome \in {"no_device", "started", "raised"} :
               /\ stream_running' = (stream_running \/ outcome = "started")
               /\ rl_pc' = CASE outcome = "no_device" -> "pick"
                             [] outcome = "started"   -> "set_active"
                             [] outcome = "raised"    -> "set_error"
               /\ attempt' = IF outcome = "no_device" THEN attempt + 1 ELSE attempt
               /\ UNCHANGED stream
       ELSE /\ stream' = "None"
            /\ rl_pc' = Return
            /\ UNCHANGED <<stream_running, attempt>>
    /\ UNCHANGED <<cbFrame, storeVars, lock, unlocked, iterVars, last_shown_track,
                   no_audio_shown, consecutive_errors, rl_ret, ticks>>

(* lines 895 and 516-531, 545-546: one round of the retry loop up to
   stream.start(), or the return of None after the last round *)
RlPick ==
    /\ rl_pc \in {"init", "pick"}
    /\ IF attempt < audio_max_retries
       THEN \E outcome \in {"no_device", "started", "raised"} :
               /\ stream_running' = (stream_running \/ outcome = "started")
               /\ rl_pc' = CASE outcome = "no_device" -> "pick"
                             [] outcome = "started"   -> "set_active"
                             [] outcome = "raised"    -> "set_error"
               /\ attempt' = IF outcome = "no_device" THEN attempt + 1 ELSE attempt
               /\ UNCHANGED stream
       ELSE /\ stream' = "None"
            /\ rl_pc' = Return
            /\ UNCHANGED <<stream_running, attempt>>
    /\ UNCHANGED <<cbFrame, storeVars, lock, unlocked, iterVars, last_shown_track,
                   no_audio_shown, consecutive_errors, rl_ret, ticks>>

(* lines 533-535: STATE.stream_active = True; return stream *)
RlSetActive ==
    /\ rl_pc = "set_active"
    /\ lock.owner = "rl"
    /\ unlocked' = Touch("rl", "stream_active")
    /\ stream_active' = TRUE
    /\ lock' = Released
    /\ stream' = "stream"
    /\ rl_pc' = Return
    /\ UNCHANGED <<cbFrame, levels_smooth, audio_last_active, ambient_index, agc_gain,
                   last_error, silence_detected, stream_running, iterVars,
                   last_shown_track, no_audio_shown, consecutive_errors, attempt, rl_ret,
                   ticks>>

(* lines 536-543: STATE.last_error = str(e), sleep, next round *)
RlSetError ==
    /\ rl_pc = "set_error"
    /\ lock.owner = "rl"
    /\ unlocked' = Touch("rl", "last_error")
    /\ last_error' = "error"
    /\ lock' = Released
    /\ attempt' = attempt + 1
    /\ rl_pc' = "pick"
    /\ UNCHANGED <<cbFrame, levels_smooth, audio_last_active, ambient_index, agc_gain,
                   stream_active, silence_detected, stream_running, iterVars,
                   last_shown_track, no_audio_shown, consecutive_errors, rl_ret, stream,
                   ticks>>

(* what get_track and the freshness test of line 922 leave to announce *)
Tracks == {"None", "A - T"}

(* lines 919-920: get_track reads the pipe, then now = time.time() *)
RlGetTrack ==
    /\ rl_pc = "tick"
    /\ ticks < MaxTicks
    /\ ticks' = ticks + 1
    /\ rl_now' = now
    /\ \E t \in Tracks : rl_track' = t
    /\ rl_pc' = "read_active"
    /\ UNCHANGED <<cbFrame, storeVars, lock, stream_running, unlocked, rl_recent, rl_lv,
                   rl_idx, last_shown_track, no_audio_shown, consecutive_errors, attempt,
                   rl_ret, stream>>

(* RlReadActive leaving the property without releasing the lock *)
RlReadActive_keeps_lock ==
    /\ rl_pc = "read_active"
    /\ lock.owner = "rl"
    /\ unlocked' = Touch("rl", "audio_last_active")
    /\ LET audio_recent == 3 * (rl_now - audio_last_active) < RecentHalfSeconds
       IN  /\ rl_recent' = audio_recent
           /\ rl_pc' = IF /\ audio_recent
                          /\ rl_track # "None"
                          /\ (rl_track # last_shown_track \/ no_audio_shown)
                       THEN "announce"
                       ELSE IF audio_recent THEN "read_levels" ELSE "read_active2"
    /\ UNCHANGED <<cbFrame, storeVars, lock, stream_running, rl_now, rl_track, rl_lv,
                   rl_idx, last_shown_track, no_audio_shown, consecutive_errors, attempt,
                   rl_ret, stream, ticks>>

(* line 921: audio_recent = (now - STATE.audio_last_active) < 1.5, the clock
   counting steps of 1.5 s; then the test of lines 925-928 *)
RlReadActive ==
    /\ rl_pc = "read_active"
    /\ lock.owner = "rl"
    /\ unlocked' = Touch("rl", "audio_last_active")
    /\ lock' = Released
    /\ LET audio_recent == 3 * (rl_now - audio_last_active) < RecentHalfSeconds
       IN  /\ rl_recent' = audio_recent
           /\ rl_pc' = IF /\ audio_recent
                          /\ rl_track # "None"
                          /\ (rl_track # last_shown_track \/ no_audio_shown)
                       THEN "announce"
                       ELSE IF audio_recent THEN "read_levels" ELSE "read_active2"
    /\ UNCHANGED <<cbFrame, storeVars, stream_running, rl_now, rl_track, rl_lv, rl_idx,
                   last_shown_track, no_audio_shown, consecutive_errors, attempt, rl_ret,
                   stream, ticks>>

(* lines 929-946: connection sound, icon with its 1.5 s sleep, scrolling text;
   a raising display call lands in the handler of line 965 *)
RlAnnounce ==
    /\ rl_pc = "announce"
    /\ \E raised \in BOOLEAN :
          IF raised
          THEN /\ RlGoto("error")
               /\ UNCHANGED <<last_shown_track, no_audio_shown>>
          ELSE /\ last_shown_track' = rl_track
               /\ no_audio_shown' = FALSE
               /\ RlGoto("read_levels")
    /\ UNCHANGED <<cbFrame, storeVars, lock, stream_running, unlocked,
                   consecutive_errors, attempt, rl_ret, stream, ticks>>

(* lines 949-950: (now - STATE.audio_last_active) > no_audio_timeout, read
   only when audio is not recent *)
RlReadActive2 ==
    /\ rl_pc = "read_active2"
    /\ lock.owner = "rl"
    /\ unlocked' = Touch("rl", "audio_last_active")
    /\ lock' = Released
    /\ rl_pc' = IF /\ 3 * (rl_now - audio_last_active) > 2 * no_audio_timeout
                   /\ ~no_audio_shown
                THEN "show_x" ELSE "read_ambient"
    /\ UNCHANGED <<cbFrame, storeVars, stream_running, iterVars, last_shown_track,
                   no_audio_shown, consecutive_errors, attempt, rl_ret, stream, ticks>>

(* lines 951-954: show_no_audio_x, sleep 0.7 s *)
RlShowX ==
    /\ rl_pc = "show_x"
    /\ no_audio_shown' = TRUE
    /\ rl_pc' = "read_ambient"
    /\ UNCHANGED <<cbFrame, storeVars, lock, stream_running, unlocked, iterVars,
                   last_shown_track, consecutive_errors, attempt, rl_ret, stream, ticks>>

(* line 843: lv = STATE.levels_smooth, the getter returns a copy *)
RlReadLevels ==
    /\ rl_pc = "read_levels"
    /\ lock.owner = "rl"
    /\ unlocked' = Touch("rl", "levels_smooth")
    /\ lock' = Released
    /\ rl_lv' = levels_smooth
    /\ rl_pc' = "draw"
    /\ UNCHANGED <<cbFrame, storeVars, stream_running, rl_now, rl_track, rl_recent,
                   rl_idx, last_shown_track, no_audio_shown, consecutive_errors, attempt,
                   rl_ret, stream, ticks>>

(* lines 844-861 and 959-963: the bars of lv, set_pixels *)
RlDraw ==
    /\ rl_pc = "draw"
    /\ no_audio_shown' = FALSE
    /\ consecutive_errors' = 0
    /\ RlGoto("sleep")
    /\ UNCHANGED <<cbFrame, storeVars, lock, stream_running, unlocked, last_shown_track,
                   attempt, rl_ret, stream, ticks>>

(* line 822: current_index = STATE.ambient_index *)
RlReadAmbient ==
    /\ rl_pc = "read_ambient"
    /\ lock.owner = "rl"
    /\ unlocked' = Touch("rl", "ambient_index")
    /\ lock' = Released
    /\ rl_idx' = ambient_index
    /\ rl_pc' = "ambient_draw"
    /\ UNCHANGED <<cbFrame, storeVars, stream_running, rl_now, rl_track, rl_recent, rl_lv,
                   last_shown_track, no_audio_shown, consecutive_errors, attempt, rl_ret,
                   stream, ticks>>

(* lines 823-832: the tail of the spinner, set_pixels *)
RlAmbientDraw ==
    /\ rl_pc = "ambient_draw"
    /\ rl_pc' = "write_ambient"
    /\ UNCHANGED <<cbFrame, storeVars, lock, stream_running, unlocked, iterVars,
                   last_shown_track, no_audio_shown, consecutive_errors, attempt, rl_ret,
                   stream, ticks>>

(* lines 834 and 963: STATE.ambient_index = (current_index + 4) % len(SPINNER_PATH) *)
RlWriteAmbient ==
    /\ rl_pc = "write_ambient"
    /\ lock.owner = "rl"
    /\ unlocked' = Touch("rl", "ambient_index")
    /\ lock' = Released
    /\ ambient_index' = (rl_idx + AMBIENT_STEP) % SPINNER_LEN
    /\ consecutive_errors' = 0
    /\ RlGoto("sleep")
    /\ UNCHANGED <<cbFrame, levels_smooth, audio_last_active, agc_gain, stream_active,
                   last_error, silence_detected, stream_running, last_shown_track,
                   no_audio_shown, attempt, rl_ret, stream, ticks>>

(* line 979: time.sleep(check_interval) *)
RlSleep ==
    /\ rl_pc = "sleep"
    /\ rl_pc' = "tick"
    /\ UNCHANGED <<cbFrame, storeVars, lock, stream_running, unlocked, iterVars,
                   last_shown_track, no_audio_shown, consecutive_errors, attempt, rl_ret,
                   stream, ticks>>

(* lines 965-974: count the error, leave after the ceiling, else look at the
   stream *)
RlError ==
    /\ rl_pc = "error"
    /\ consecutive_errors' = consecutive_errors + 1
    /\ rl_pc' = IF consecutive_errors + 1 > MAX_ERRORS THEN "shutdown"
                ELSE IF stream # "None" THEN "read_stream" ELSE "sleep"
    /\ UNCHANGED <<cbFrame, storeVars, lock, stream_running, unlocked, iterVars,
                   last_shown_track, no_audio_shown, attempt, rl_ret, stream, ticks>>

(* lines 974-977: not STATE.stream_active, then restart the stream *)
RlReadStream ==
    /\ rl_pc = "read_stream"
    /\ lock.owner = "rl"
    /\ unlocked' = Touch("rl", "stream_active")
    /\ lock' = Released
    /\ IF ~stream_active
       THEN rl_pc' = "pick" /\ rl_ret' = "restart" /\ attempt' = 0
       ELSE rl_pc' = "sleep" /\ UNCHANGED <<rl_ret, attempt>>
    /\ UNCHANGED <<cbFrame, storeVars, stream_running, iterVars, last_shown_track,
                   no_audio_shown, consecutive_errors, stream, ticks>>

(* lines 981-984: KeyboardInterrupt inside the try of _main_loop; a with
   statement it leaves releases the lock.  Raised in start() before the loop
   (line 895) it leaves the program without _shutdown *)
RlInterrupt ==
    /\ rl_pc \in LoopPcs \cup StartPcs \cup {"init"}
    /\ RlGoto(IF rl_pc \in LoopPcs \/ rl_ret = "restart" THEN "shutdown" ELSE "killed")
    /\ lock' = IF lock.owner = "rl" THEN Free ELSE lock
    /\ UNCHANGED <<cbFrame, storeVars, stream_running, unlocked, last_shown_track,
                   no_audio_shown, consecutive_errors, attempt, rl_ret, stream, ticks>>

(* lines 986-1004: stream.stop() returns once the running callback is over *)
RlShutdown ==
    /\ rl_pc = "shutdown"
    /\ stream # "None" => cb_pc = "idle"
    /\ stream_running' = IF stream # "None" THEN FALSE ELSE stream_running
    /\ rl_pc' = "done"
    /\ UNCHANGED <<cbFrame, storeVars, lock, unlocked, iterVars, last_shown_track,
                   no_audio_shown, consecutive_errors, attempt, rl_ret, stream, ticks>>

(* line 1019: start() left by the interrupt, the interpreter exits and the
   stream ends with it *)
RlExit ==
    /\ rl_pc = "killed"
    /\ cb_pc = "idle"
    /\ stream_running' = FALSE
    /\ rl_pc' = "done"
    /\ UNCHANGED <<cbFrame, storeVars, lock, unlocked, iterVars, last_shown_track,
                   no_audio_shown, consecutive_errors, attempt, rl_ret, stream, ticks>>

RlStep ==
    \/ RlAcquire
    \/ RlPick
    \/ RlSetActive
    \/ RlSetError
    \/ RlGetTrack
    \/ RlReadActive
    \/ RlAnnounce
    \/ RlReadActive2
    \/ RlShowX
    \/ RlReadLevels
    \/ RlDraw
    \/ RlReadAmbient
    \/ RlAmbientDraw
    \/ RlWriteAmbient
    \/ RlSleep
    \/ RlError
    \/ RlReadStream
    \/ RlInterrupt
    \/ RlShutdown
    \/ RlExit

----------------------------------------------------------------------------
(* MetadataReader.  Bytes are integers 0..255, text is a sequence of code    *)
(* points.                                                                   *)

(* the printable ASCII characters, code points 32..126 (96 by its name) *)
AsciiTab ==
    <<" ", "!", "\"", "#", "$", "%", "&", "'", "(", ")", "*", "+", ",", "-", ".", "/",
      "0", "1", "2", "3", "4", "5", "6", "7", "8", "9", ":", ";", "<", "=", ">", "?",
      "@", "A", "B", "C", "D", "E", "F", "G", "H", "I", "J", "K", "L", "M", "N", "O",
      "P", "Q", "R", "S", "T", "U", "V", "W", "X", "Y", "Z", "[", "\\", "]", "^", "_",
      "grave", "a", "b", "c", "d", "e", "f", "g", "h", "i", "j", "k", "l", "m", "n", "o",
      "p", "q", "r", "s", "t", "u", "v", "w", "x", "y", "z", "{", "|", "}", "~">>

Ord(c) == 31 + (CHOOSE i \in 1..Len(AsciiTab) : AsciiTab[i] = c)

(* the code points of a string literal written character by character *)
Str(cs) == Tuple([i \in 1..Len(cs) |-> Ord(cs[i])])

(* "<item>" *)
ITEM_OPEN == <<60, 105, 116, 101, 109, 62>>

(* "</item>" *)
ITEM_CLOSE == <<60, 47, 105, 116, 101, 109, 62>>

(* "<type>" *)
TYPE_OPEN == <<60, 116, 121, 112, 101, 62>>

(* "</type>" *)
TYPE_CLOSE == <<60, 47, 116, 121, 112, 101, 62>>

(* "<code>" *)
CODE_OPEN == <<60, 99, 111, 100, 101, 62>>

(* "</code>" *)
CODE_CLOSE == <<60, 47, 99, 111, 100, 101, 62>>

(* "<data" *)
DATA_OPEN == <<60, 100, 97, 116, 97>>

(* "</data>" *)
DATA_CLOSE == <<60, 47, 100, 97, 116, 97, 62>>

(* "core" *)
CORE == <<99, 111, 114, 101>>

(* "asar" *)
ASAR == <<97, 115, 97, 114>>

(* "minm" *)
MINM == <<109, 105, 110, 109>>

(* "Unknown Artist" *)
UNKNOWN_ARTIST == <<85, 110, 107, 110, 111, 119, 110, 32, 65, 114, 116, 105, 115, 116>>

(* "Unknown Track" *)
UNKNOWN_TRACK == <<85, 110, 107, 110, 111, 119, 110, 32, 84, 114, 97, 99, 107>>

(* Python's None where a string is expected *)
None == <<-1>>

(* s[i-1:].startswith(m), i counting from 1 *)
StartsWith(s, i, m) ==
    /\ i >= 1
    /\ i + Len(m) - 1 <= Len(s)
    /\ \A k \in 1..Len(m) : s[i + k - 1] = m[k]

SetMin(S) == CHOOSE x \in S : \A y \in S : x <= y

(* s.find(m, from - 1) + 1: the first position at or after from where m
   starts, 0 when there is none *)
Find(s, m, from) ==
    LET hits == {i \in from..(Len(s) - Len(m) + 1) : StartsWith(s, i, m)}
    IN  IF hits = {} THEN 0 ELSE SetMin(hits)

Tail_n_drops(s, n) == <<>>

(* s[-n:] *)
Tail_n(s, n) == IF Len(s) <= n THEN s ELSE SubSeq(s, Len(s) - n + 1, Len(s))

(* str.isspace for the code points below 256 *)
IsSpace(c) == c \in (9..13) \cup (28..32) \cup {133, 160}

(* str.strip() *)
Strip(s) ==
    LET keep == {i \in 1..Len(s) : ~IsSpace(s[i])}
    IN  IF keep = {} THEN <<>>
        ELSE SubSeq(s, SetMin(keep), CHOOSE x \in keep : \A y \in keep : y <= x)

IsContinuation(b) == b \in 128..191

IsLead2(b) == b \in 194..223

(* what the byte at position i of a chunk adds to the text under
   decode("utf-8", "ignore"): an ASCII byte itself, the first byte of a
   two-byte sequence its character, any other byte nothing (the streams hold
   no first byte of a longer sequence) *)
CharAt(b, i) ==
    IF b[i] < 128 THEN <<b[i]>>
    ELSE IF IsLead2(b[i]) /\ i < Len(b) /\ IsContinuation(b[i + 1])
         THEN <<(b[i] - 192) * 64 + (b[i + 1] - 128)>>
         ELSE <<>>

RECURSIVE DecodeRange(_, _, _)
DecodeRange(b, lo, hi) ==
    IF lo > hi THEN <<>>
    ELSE IF lo = hi THEN CharAt(b, lo)
    ELSE LET mid == (lo + hi) \div 2
         IN  DecodeRange(b, lo, mid) \o DecodeRange(b, mid + 1, hi)

(* bytes.decode("utf-8", "ignore") *)
Utf8Ignore(b) ==
    IF \A i \in 1..Len(b) : b[i] < 128 THEN b ELSE DecodeRange(b, 1, Len(b))

(* bytes.decode("ascii", "ignore") *)
AsciiIgnore(b) ==
    IF \A i \in 1..Len(b) : b[i] < 128 THEN b
    ELSE LET keep == {i \in 1..Len(b) : b[i] < 128}
             RECURSIVE Pick(_)
             Pick(i) == IF i > Len(b) THEN <<>>
                        ELSE IF i \in keep THEN <<b[i]>> \o Pick(i + 1) ELSE Pick(i + 1)
         IN  Pick(1)

IsHexDigit(c) == c \in (48..57) \cup (65..70) \cup (97..102)

HexValue(c) == IF c <= 57 THEN c - 48 ELSE IF c <= 70 THEN c - 55 ELSE c - 87

(* bytes.fromhex on a string of hex digits: ValueError for an odd number *)
FromHexRaises(h) == Len(h) % 2 = 1

FromHex(h) ==
    Tuple([i \in 1..(Len(h) \div 2) |-> 16 * HexValue(h[2 * i - 1]) + HexValue(h[2 * i])])

(* the value of a character in the base64 alphabet, 64 outside it *)
B64Value(c) ==
    IF c \in 65..90 THEN c - 65
    ELSE IF c \in 97..122 THEN c - 71
    ELSE IF c \in 48..57 THEN c + 4
    ELSE IF c = 43 THEN 62
    ELSE IF c = 47 THEN 63
    ELSE 64

(* binascii.a2b_base64 without strict mode: characters outside the alphabet
   are skipped, padding that completes a quad ends the input, an incomplete
   quad at the end raises *)
RECURSIVE A2bBase64(_, _, _, _, _, _)
A2bBase64(s, i, quad_pos, leftchar, pads, out) ==
    IF i > Len(s)
    THEN IF quad_pos # 0 THEN Raised ELSE Returned(out)
    ELSE IF s[i] = 61
    THEN IF quad_pos >= 2 /\ quad_pos + pads + 1 >= 4
         THEN Returned(out)
         ELSE A2bBase64(s, i + 1, quad_pos, leftchar,
                        IF quad_pos >= 2 THEN pads + 1 ELSE pads, out)
    ELSE LET this_ch == B64Value(s[i])
         IN  IF this_ch >= 64
             THEN A2bBase64(s, i + 1, quad_pos, leftchar, pads, out)
             ELSE CASE quad_pos = 0 ->
                         A2bBase64(s, i + 1, 1, this_ch, 0, out)
                    [] quad_pos = 1 ->
                         A2bBase64(s, i + 1, 2, this_ch % 16, 0,
                                   Append(out, (leftchar * 4 + (this_ch \div 16)) % 256))
                    [] quad_pos = 2 ->
                         A2bBase64(s, i + 1, 3, this_ch % 4, 0,
                                   Append(out, (leftchar * 16 + (this_ch \div 4)) % 256))
                    [] quad_pos = 3 ->
                         A2bBase64(s, i + 1, 0, 0, 0,
                                   Append(out, (leftchar * 64 + this_ch) % 256))

(* base64.b64decode of a str: ValueError when it holds a non-ASCII character *)
B64Decode(s) ==
    IF \E i \in 1..Len(s) : s[i] >= 128 THEN Raised
    ELSE A2bBase64(s, 1, 0, 0, 0, <<>>)

(* no match of a regular expression *)
NoMatch == [found |-> FALSE, group |-> <<>>]

Match(g) == [found |-> TRUE, group |-> g]

RECURSIVE HexRunEnd(_, _)
(* the position after the hex digits that start at i *)
HexRunEnd(s, i) ==
    IF i <= Len(s) /\ IsHexDigit(s[i]) THEN HexRunEnd(s, i + 1) ELSE i

(* re.search of <tag>([0-9A-Fa-f]+)</tag> *)
SearchHexField(s, open, close) ==
    LET hits == {i \in 1..Len(s) :
                    /\ StartsWith(s, i, open)
                    /\ HexRunEnd(s, i + Len(open)) > i + Len(open)
                    /\ StartsWith(s, HexRunEnd(s, i + Len(open)), close)}
    IN  IF hits = {} THEN NoMatch
        ELSE LET i == SetMin(hits)
             IN  Match(SubSeq(s, i + Len(open), HexRunEnd(s, i + Len(open)) - 1))

(* re.search of <data[^>]*>(.*?)</data> with re.S: the first ">" after
   "<data", then up to the first "</data>" *)
SearchData(s) ==
    LET gt(i)  == Find(s, <<62>>, i + Len(DATA_OPEN))
        end(i) == Find(s, DATA_CLOSE, gt(i) + 1)
        hits   == {i \in 1..Len(s) :
                      StartsWith(s, i, DATA_OPEN) /\ gt(i) > 0 /\ end(i) > 0}
    IN  IF hits = {} THEN NoMatch
        ELSE LET i == SetMin(hits)
             IN  Match(SubSeq(s, gt(i) + 1, end(i) - 1))

(* self.last_artist, self.last_title, self.last_update *)
Track(a, t, u) == [artist |-> a, title |-> t, update |-> u]

(* _handle_item_xml at time t: the track state it leaves *)
handle_item_xml(item_xml, st, t) ==
    LET m_type == SearchHexField(item_xml, TYPE_OPEN, TYPE_CLOSE)
        m_code == SearchHexField(item_xml, CODE_OPEN, CODE_CLOSE)
        m_data == SearchData(item_xml)
    IN  IF ~(m_type.found /\ m_code.found /\ m_data.found) THEN st
        ELSE LET type_hex == Strip(m_type.group)
                 code_hex == Strip(m_code.group)
             IN  IF FromHexRaises(type_hex) \/ FromHexRaises(code_hex) THEN st
                 ELSE LET type_code == AsciiIgnore(FromHex(type_hex))
                          code      == AsciiIgnore(FromHex(code_hex))
                          payload   == B64Decode(Strip(m_data.group))
                      IN  IF payload.raised THEN st
                          ELSE IF type_code = CORE /\ code = ASAR
                          THEN Track(Strip(Utf8Ignore(payload.val)), st.title, t)
                          ELSE IF type_code = CORE /\ code = MINM
                          THEN Track(st.artist, Strip(Utf8Ignore(payload.val)), t)
                          ELSE st

(* ProcessItems without the trim of lines 652-653 *)
RECURSIVE ProcessItems_keeps_garbage(_, _, _, _)
ProcessItems_keeps_garbage(buf, st, log, t) ==
    LET start == Find(buf, ITEM_OPEN, 1)
    IN  IF start = 0
        THEN [buffer |-> Tail_n(buf, TAIL_CAP), st |-> st, log |-> log]
        ELSE LET end == Find(buf, ITEM_CLOSE, start)
             IN  IF end = 0
                 THEN [buffer |-> buf, st |-> st, log |-> log]
                 ELSE LET item_xml == SubSeq(buf, start, end + Len(ITEM_CLOSE) - 1)
                          after    == handle_item_xml(item_xml, st, t)
                      IN  ProcessItems_keeps_garbage(
                              SubSeq(buf, end + Len(ITEM_CLOSE), Len(buf)),
                              after,
                              Append(log, [xml |-> item_xml, pre |-> st,
                                           post |-> after, at |-> t]),
                              t)

(* lines 643-658: extract and handle the complete items of the buffer *)
RECURSIVE ProcessItems(_, _, _, _)
ProcessItems(buf, st, log, t) ==
    LET start == Find(buf, ITEM_OPEN, 1)
    IN  IF start = 0
        THEN [buffer |-> Tail_n(buf, TAIL_CAP), st |-> st, log |-> log]
        ELSE LET end == Find(buf, ITEM_CLOSE, start)
             IN  IF end = 0
                 THEN [buffer |-> IF start > 1 THEN SubSeq(buf, start, Len(buf)) ELSE buf,
                       st |-> st, log |-> log]
                 ELSE LET item_xml == SubSeq(buf, start, end + Len(ITEM_CLOSE) - 1)
                          after    == handle_item_xml(item_xml, st, t)
                      IN  ProcessItems(SubSeq(buf, end + Len(ITEM_CLOSE), Len(buf)),
                                       after,
                                       Append(log, [xml |-> item_xml, pre |-> st,
                                                    post |-> after, at |-> t]),
                                       t)

(* lines 671-674: what get_track returns *)
TrackResult(st) ==
    LET has_artist == st.artist # None /\ st.artist # <<>>
        has_title  == st.title # None /\ st.title # <<>>
    IN  IF has_artist \/ has_title
        THEN Track(IF has_artist THEN st.artist ELSE UNKNOWN_ARTIST,
                   IF has_title THEN st.title ELSE UNKNOWN_TRACK,
                   st.update)
        ELSE Track(None, None, 0)

(* the hex digits bytes.hex() writes for a byte string *)
HexDigits ==
    Str(<<"0", "1", "2", "3", "4", "5", "6", "7", "8", "9", "a", "b", "c", "d", "e", "f">>)

RECURSIVE Concat(_)
Concat(ss) == IF ss = <<>> THEN <<>> ELSE Head(ss) \o Concat(Tail(ss))

ToHex(b) ==
    Concat([i \in 1..Len(b) |->
        <<HexDigits[(b[i] \div 16) + 1], HexDigits[(b[i] % 16) + 1]>>])

(* an item as shairport-sync writes it: type, code, data *)
Item(type_hex, code_hex, attrs, data_b64) ==
    Concat(<<ITEM_OPEN, TYPE_OPEN, type_hex, TYPE_CLOSE, CODE_OPEN, code_hex, CODE_CLOSE,
             DATA_OPEN, attrs, <<62>>, data_b64, DATA_CLOSE, ITEM_CLOSE>>)

ENCODING == Str(<<" ", "e", "n", "c", "o", "d", "i", "n", "g", "=", "\"", "b", "a", "s", "e",
                  "6", "4", "\"">>)

(* the pieces the streams are made of: items, then bytes outside any item *)
Pieces ==
    [asar_A      |-> Item(ToHex(CORE), ToHex(ASAR), ENCODING, Str(<<"Q", "Q", "=", "=">>)),
     minm_T      |-> Item(ToHex(CORE), ToHex(MINM), ENCODING, Str(<<"V", "A", "=", "=">>)),
     asar_empty  |-> Item(ToHex(CORE), ToHex(ASAR), <<>>, <<>>),
     minm_empty  |-> Item(ToHex(CORE), ToHex(MINM), <<>>, <<>>),
     asar_marks  |-> Item(ToHex(CORE), ToHex(ASAR), <<>>, Str(<<"!", "!", "!", "!">>)),
     asar_short  |-> Item(ToHex(CORE), ToHex(ASAR), <<>>, Str(<<"Q", "Q">>)),
     asar_oddhex |-> Item(Tail(ToHex(CORE)), ToHex(ASAR), <<>>, Str(<<"Q", "Q", "=", "=">>)),
     asal_A      |-> Item(ToHex(CORE), ToHex(Str(<<"a", "s", "a", "l">>)), <<>>,
                          Str(<<"Q", "Q", "=", "=">>)),
     no_code     |-> Concat(<<ITEM_OPEN, TYPE_OPEN, ToHex(CORE), TYPE_CLOSE, DATA_OPEN,
                              <<62>>, Str(<<"Q", "Q", "=", "=">>), DATA_CLOSE, ITEM_CLOSE>>),
     x           |-> Str(<<"x">>),
     accent      |-> Concat(<<Str(<<"<", "i", "t">>), <<195, 169>>, Str(<<"e", "m", ">">>)>>),
     filler      |-> Tuple([i \in 1..(TAIL_CAP + 1) |-> 120])]

ItemNames == {"asar_A", "minm_T", "asar_empty", "minm_empty", "asar_marks", "asar_short",
              "asar_oddhex", "asal_A", "no_code"}

NoiseNames == {"x", "accent"}

(* the streams: up to MaxPieces items and short noise, and noise followed by
   a long run of bytes outside any item *)
Feeds ==
    SeqsUpTo(ItemNames \cup NoiseNames, MaxPieces)
        \cup {f \o <<"filler">> : f \in SeqsUpTo(NoiseNames, MaxPieces - 1)}

FeedBytes(f) == Concat([i \in 1..Len(f) |-> Pieces[f[i]]])

(* the sizes os.read returns, at most the 4096 asked for *)
ReadSizes == {4, READ_MAX}

InitReader ==
    /\ pipe = "None"
    /\ buffer = <<>>
    /\ last_artist = None
    /\ last_title = None
    /\ last_update = 0
    /\ rd_pc = "idle"
    /\ rd_result = Track(None, None, 0)
    /\ rd_failed = FALSE
    /\ rd_log = <<>>

appVars == <<configVars, duckVars, HANN_WINDOW, levelVars, storeVars, seqVars, threadVars, loopVars>>

(* lines 667-674: the return of get_track *)
Returns(st) ==
    /\ rd_result' = TrackResult(st)
    /\ rd_pc' = "idle"

(* lines 669, 625 and 574-588: get_track enters _read_chunks; without an open
   pipe the path may be absent or open() may fail *)
GetTrack ==
    /\ rd_pc = "idle"
    /\ IF pipe = "Open"
       THEN rd_pc' = "select" /\ UNCHANGED <<pipe, rd_result, rd_failed>>
       ELSE \E outcome \in {"absent", "open_fails", "opened"} :
               IF outcome = "opened"
               THEN pipe' = "Open" /\ rd_pc' = "select" /\ UNCHANGED <<rd_result, rd_failed>>
               ELSE /\ Returns(Track(last_artist, last_title, last_update))
                    /\ UNCHANGED <<pipe, rd_failed>>
    /\ UNCHANGED <<appVars, now, feed, buffer, last_artist, last_title, last_update,
                   rd_rest, rd_log>>

(* lines 630-632: select reports nothing to read *)
RdSelectEmpty ==
    /\ rd_pc = "select"
    /\ Returns(Track(last_artist, last_title, last_update))
    /\ rd_failed' = FALSE
    /\ UNCHANGED <<appVars, now, feed, pipe, buffer, last_artist, last_title,
                   last_update, rd_rest, rd_log>>

(* lines 634-658: os.read returns a chunk, the buffer grows by its text, the
   complete items are handled *)
RdRead ==
    /\ rd_pc = "select"
    /\ rd_rest # <<>>
    /\ \E size \in ReadSizes :
          LET n    == Min(size, Len(rd_rest))
              data == SubSeq(rd_rest, 1, n)
              done == ProcessItems(buffer \o Utf8Ignore(data),
                                   Track(last_artist, last_title, last_update),
                                   rd_log, now)
          IN  /\ rd_rest' = SubSeq(rd_rest, n + 1, Len(rd_rest))
              /\ buffer' = done.buffer
              /\ last_artist' = done.st.artist
              /\ last_title' = done.st.title
              /\ last_update' = done.st.update
              /\ rd_log' = done.log
              /\ rd_failed' = FALSE
    /\ UNCHANGED <<appVars, now, feed, pipe, rd_pc, rd_result>>

(* lines 635-638: os.read returns b"", the writer has closed the pipe *)
RdEndOfStream ==
    /\ rd_pc = "select"
    /\ rd_rest = <<>>
    /\ pipe' = "None"
    /\ rd_failed' = TRUE
    /\ Returns(Track(last_artist, last_title, last_update))
    /\ UNCHANGED <<appVars, now, feed, buffer, last_artist, last_title, last_update,
                   rd_rest, rd_log>>

(* RdError without the _close_pipe of the handlers *)
RdError_keeps_pipe ==
    /\ rd_pc = "select"
    /\ rd_failed' = TRUE
    /\ Returns(Track(last_artist, last_title, last_update))
    /\ UNCHANGED <<appVars, now, feed, pipe, buffer, last_artist, last_title, last_update,
                   rd_rest, rd_log>>

(* lines 660-665: select or os.read raises *)
RdError ==
    /\ rd_pc = "select"
    /\ pipe' = "None"
    /\ rd_failed' = TRUE
    /\ Returns(Track(last_artist, last_title, last_update))
    /\ UNCHANGED <<appVars, now, feed, buffer, last_artist, last_title, last_update,
                   rd_rest, rd_log>>

----------------------------------------------------------------------------
(* The main loop one iteration at a time: lines 918-979 as one step.  The    *)
(* callback thread shows as the moments it marks audio active.               *)

(* the composed "artist - title" strings *)
LoopTracks == {"A - T", "B - T"}

(* the least number of clock steps that is longer than metadata_timeout *)
StaleAge == (2 * metadata_timeout) \div 3 + 1

(* the time the application is started at: late enough for a stale update *)
LoopStart == StaleAge + 1

(* what get_track can return at time t: the sentinel, or a track updated just
   now or longer ago than metadata_timeout *)
TrackResults(t) ==
    {[track |-> "None", updated_at |-> 0]}
        \cup [track : LoopTracks, updated_at : {t, t - StaleAge}]

(* line 921: audio_recent at time t *)
AudioRecent(t) == 3 * (t - audio_last_active) < RecentHalfSeconds

(* line 922: metadata_fresh at time t *)
MetadataFresh(t, updated_at) ==
    updated_at > 0 /\ 3 * (t - updated_at) <= 2 * metadata_timeout

(* line 949: audio has been inactive for longer than no_audio_timeout *)
NoAudioTimeout(t) == ~AudioRecent(t) /\ 3 * (t - audio_last_active) > 2 * no_audio_timeout

(* lines 925 and 928: the announcement of current_track is due *)
ShouldAnnounce(recent, fresh, track) ==
    /\ recent
    /\ fresh
    /\ track # "None"
    /\ (track # last_shown_track \/ no_audio_shown)

(* the announcement leaving last_shown_track as it was *)
ShownAfter_forgets(track) == last_shown_track

(* line 944: last_shown_track after the announcement *)
ShownAfter(track) == track

(* lines 950-953: the no-audio indicator is due *)
ShouldShowX(t) == NoAudioTimeout(t) /\ ~no_audio_shown

(* lines 946, 953 and 961: no_audio_shown at the end of the iteration *)
NoAudioShownAfter(recent, show_x) ==
    IF recent THEN FALSE ELSE (show_x \/ no_audio_shown)

(* the cursor advanced without the wrap at the end of the path *)
AmbientAfter_no_wrap(current_index) == current_index + AMBIENT_STEP

(* line 834: the cursor after ambient_step *)
AmbientAfter(current_index) == (current_index + AMBIENT_STEP) % SPINNER_LEN

(* line 969: the error ceiling *)
TooManyErrors(n) == n > MAX_ERRORS

(* an iteration without error leaving the count as it was *)
ErrorsAfterSuccess_keeps(n) == n

(* line 963: consecutive_errors after an iteration without error *)
ErrorsAfterSuccess(n) == 0

(* line 974: the stream is taken for dead *)
StreamDied == stream # "None" /\ ~stream_active

(* lines 918-979: one iteration of the loop up to its sleep.  r is what
   get_track returns; raised says whether the announcement raises (line 942,
   detect_current_app) *)
MainLoopTick ==
    /\ rl_pc = "tick"
    /\ \E r \in TrackResults(now), raised \in BOOLEAN :
          LET audio_recent   == AudioRecent(now)
              metadata_fresh == MetadataFresh(now, r.updated_at)
              announce       == ShouldAnnounce(audio_recent, metadata_fresh, r.track)
              show_x         == ShouldShowX(now)
          IN  /\ tick_did' = [recent |-> audio_recent, fresh |-> metadata_fresh,
                              track |-> r.track, announced |-> announce,
                              failed |-> announce /\ raised]
              /\ IF announce /\ raised
                 THEN /\ consecutive_errors' = consecutive_errors + 1
                      /\ failed_run' = failed_run + 1
                      /\ IF TooManyErrors(consecutive_errors + 1)
                         THEN rl_pc' = "shutdown" /\ UNCHANGED <<rl_ret, attempt>>
                         ELSE IF StreamDied
                         THEN rl_pc' = "pick" /\ rl_ret' = "restart" /\ attempt' = 0
                         ELSE rl_pc' = "sleep" /\ UNCHANGED <<rl_ret, attempt>>
                      /\ x_shown_count' = 0
                      /\ UNCHANGED <<last_shown_track, no_audio_shown, ambient_index,
                                     idle_ticks>>
                 ELSE /\ ~audio_recent => idle_ticks < MaxIdleTicks
                      /\ last_shown_track' = IF announce THEN ShownAfter(r.track)
                                             ELSE last_shown_track
                      /\ no_audio_shown' = NoAudioShownAfter(audio_recent, show_x)
                      /\ x_shown_count' = IF audio_recent THEN 0
                                          ELSE IF show_x THEN x_shown_count + 1
                                          ELSE x_shown_count
                      /\ ambient_index' = IF audio_recent THEN ambient_index
                                          ELSE AmbientAfter(ambient_index)
                      /\ idle_ticks' = IF audio_recent THEN idle_ticks ELSE idle_ticks + 1
                      /\ consecutive_errors' = ErrorsAfterSuccess(consecutive_errors)
                      /\ failed_run' = 0
                      /\ rl_pc' = "sleep"
                      /\ UNCHANGED <<rl_ret, attempt>>
    /\ UNCHANGED <<configVars, duckVars, readerVars, HANN_WINDOW, levelVars, now, seqVars, cbVars,
                   written, levels_smooth, audio_last_active, agc_gain, stream_active,
                   last_error, silence_detected, lock, stream_running, unlocked, iterVars,
                   stream, ticks>>

(* lines 479-484: a callback on a frame above the activity threshold *)
AudioActive ==
    /\ stream_running
    /\ audio_last_active # now
    /\ audio_last_active' = now
    /\ UNCHANGED <<configVars, duckVars, readerVars, loopVars, HANN_WINDOW, levelVars, now, seqVars,
                   cbVars, written, levels_smooth, ambient_index, agc_gain, stream_active,
                   last_error, silence_detected, lock, stream_running, unlocked, rlVars>>

(* the capture stream that start_audio_stream returned stops delivering
   frames: the device has gone *)
StreamDies ==
    /\ stream_running
    /\ stream # "None"
    /\ stream_running' = FALSE
    /\ UNCHANGED <<configVars, duckVars, readerVars, loopVars, HANN_WINDOW, levelVars, now, seqVars,
                   cbVars, written, storeVars, lock, unlocked, rlVars>>

(* the least number of clock steps that is longer than no_audio_timeout *)
QuietAge == (2 * no_audio_timeout) \div 3 + 1

(* the moments the clock shows: the start, one step later, and from there
   on every stretch longer than no_audio_timeout *)
LoopTimes ==
    {LoopStart, LoopStart + 1} \cup {LoopStart + 1 + p * QuietAge : p \in 1..MaxLoopTime}

(* time passes while the application runs *)
Elapse ==
    /\ rl_pc # "done"
    /\ \E t \in LoopTimes :
          /\ t > now
          /\ now' = t
    /\ UNCHANGED <<configVars, duckVars, readerVars, loopVars, HANN_WINDOW, levelVars, storeVars,
                   seqVars, threadVars>>

(* Volume ducking around the connection sound *)

(* lines 72-74: duck_enabled, duck_level 0.3 in tenths, duck_duration 2.0 s in
   half seconds *)
duck_enabled == TRUE

duck_level == 3

duck_duration == 4

(* the volumes the sink can report, in percent *)
Volumes == {0, 10, 40, 70, 100}

set_sink_volume_full(volume_percent) == 100

(* lines 329-344: pactl sets the sink to the percentage given *)
set_sink_volume(volume_percent) == volume_percent

(* lines 306-326: the sink's volume is what the mixer reports; anything else
   on the machine may have changed it *)
MixerChanges ==
    /\ \E v \in Volumes \ {sink_volume} : sink_volume' = v
    /\ UNCHANGED <<saved_volume, ducked_until>>
    /\ UNCHANGED <<configVars, readerVars, loopVars, HANN_WINDOW, levelVars, now, storeVars,
                   seqVars, threadVars>>

(* the trigger: with no ducking in progress the current volume is saved, the
   sink is lowered to duck_level of it and the expiry is duck_duration ahead *)
Duck ==
    /\ duck_enabled
    /\ saved_volume = <<>>
    /\ saved_volume' = <<sink_volume>>
    /\ sink_volume' = set_sink_volume((sink_volume * duck_level) \div 10)
    /\ ducked_until' = 3 * now + duck_duration
    /\ UNCHANGED <<configVars, readerVars, loopVars, HANN_WINDOW, levelVars, now, storeVars,
                   seqVars, threadVars>>

(* the restore: once the expiry has passed the saved volume is set again and
   the saved volume and the expiry are dropped *)
Unduck ==
    /\ saved_volume # <<>>
    /\ 3 * now > ducked_until
    /\ sink_volume' = set_sink_volume(saved_volume[1])
    /\ saved_volume' = <<>>
    /\ ducked_until' = 0
    /\ UNCHANGED <<configVars, readerVars, loopVars, HANN_WINDOW, levelVars, now, storeVars,
                   seqVars, threadVars>>


----------------------------------------------------------------------------
(* Specifications *)

(* compute_levels on any block, with any band count *)
InitLevels ==
    /\ n_bands \in 1..MaxBands
    /\ block \in MonoBlocks \cup StereoBlocks
    /\ block_size = Len(block.data)
    /\ HANN_WINDOW = 0
    /\ levels_out = Returned(<<>>)
    /\ lv_done = FALSE
    /\ InitStore
    /\ now = StartTime
    /\ NoCalls
    /\ InitThreads
    /\ NoTicks
    /\ NoDuck
    /\ InitReader
    /\ feed = <<>>
    /\ rd_rest = <<>>

NextLevels == ComputeLevels

SpecLevels == InitLevels /\ [][NextLevels]_vars

(* audio callbacks one after the other, the clock advancing in between *)
InitAgc ==
    /\ InitConfig
    /\ InitStore
    /\ NoLevels
    /\ now = StartTime
    /\ NoCalls
    /\ InitThreads
    /\ NoTicks
    /\ NoDuck
    /\ InitReader
    /\ feed = <<>>
    /\ rd_rest = <<>>

NextAgc == Callback \/ Tick

SpecAgc == InitAgc /\ [][NextAgc]_vars

(* the audio callback thread and the main thread side by side *)
InitApp ==
    /\ n_bands = MaxCbBands
    /\ block_size = 2 * MaxCbBands
    /\ HANN_WINDOW = 0
    /\ InitStore
    /\ NoLevels
    /\ now = StartTime
    /\ NoCalls
    /\ InitThreads
    /\ NoTicks
    /\ NoDuck
    /\ InitReader
    /\ feed = <<>>
    /\ rd_rest = <<>>

NextApp == CbStep \/ RlStep \/ Tick

Spec == InitApp /\ [][NextApp]_vars

(* the statements of audio_callback *)
CbPcs == {"idle", "read_gain", "write_gain", "levels", "read_levels", "write_levels",
          "write_active", "write_silence"}

(* the callback, not waiting for the lock, leaves the statement it is at; only
   steps of the callback change cb_pc *)
CbMove ==
    /\ cb_pc # "idle"
    /\ cb_pc \in CbSites => lock.owner = "cb"
    /\ cb_pc' \in CbPcs \ {cb_pc}

(* the two threads under a fair scheduler: the callback gets the lock when it
   stays free, a callback that can go on does, and so does the main thread *)
FairSpec == Spec /\ WF_vars(CbAcquire) /\ WF_cb_pc(CbMove) /\ WF_vars(RlStep)

(* get_track calls against a pipe the writer fills with a stream *)
InitRd ==
    /\ n_bands = MaxCbBands
    /\ block_size = 2 * MaxCbBands
    /\ HANN_WINDOW = 0
    /\ InitStore
    /\ NoLevels
    /\ now = StartTime
    /\ NoCalls
    /\ InitThreads
    /\ NoTicks
    /\ NoDuck
    /\ InitReader
    /\ feed \in Feeds
    /\ rd_rest = FeedBytes(feed)

NextRd == GetTrack \/ RdSelectEmpty \/ RdRead \/ RdEndOfStream \/ RdError \/ Tick

SpecReader == InitRd /\ [][NextRd]_vars

(* the reader on ASCII and non-ASCII streams cut into chunks, the clock
   standing still *)
ChunkNames == {"asar_A", "minm_T", "x", "accent"}

ChunkFeeds == SeqsUpTo(ChunkNames, MaxChunkPieces)

InitChunks ==
    /\ n_bands = MaxCbBands
    /\ block_size = 2 * MaxCbBands
    /\ HANN_WINDOW = 0
    /\ InitStore
    /\ NoLevels
    /\ now = StartTime
    /\ NoCalls
    /\ InitThreads
    /\ NoTicks
    /\ NoDuck
    /\ InitReader
    /\ feed \in ChunkFeeds
    /\ rd_rest = FeedBytes(feed)

NextChunks == GetTrack \/ RdSelectEmpty \/ RdRead \/ RdEndOfStream \/ RdError

SpecChunks == InitChunks /\ [][NextChunks]_vars

(* the callback from line 477 on, for any levels compute_levels may have
   returned: zero, 0.001, 0.01, just above 0.01, and 1.0 in each band; the
   flag and the timestamp as earlier callbacks may have left them *)
LevelValues == {0, 1, 10, 11, Unit}

LevelVectors == SeqsOf(LevelValues, MaxCbBands)

InitActivity ==
    /\ n_bands = MaxCbBands
    /\ block_size = 2 * MaxCbBands
    /\ HANN_WINDOW = 0
    /\ levels_smooth = Zeros(n_bands)
    /\ audio_last_active \in {0, StartTime}
    /\ ambient_index = 0
    /\ agc_gain = Unit
    /\ stream_active = TRUE
    /\ last_error = "None"
    /\ silence_detected \in BOOLEAN
    /\ NoLevels
    /\ now = StartTime
    /\ NoCalls
    /\ lock = Free
    /\ stream_running = TRUE
    /\ cb_pc = "read_levels"
    /\ cb_in = NoFrame
    /\ cb_gain = Unit
    /\ cb_lev \in LevelVectors
    /\ cb_cur = <<>>
    /\ InitRl
    /\ unlocked = {}
    /\ written = {levels_smooth}
    /\ NoTicks
    /\ NoDuck
    /\ InitReader
    /\ feed = <<>>
    /\ rd_rest = <<>>

NextActivity == CbStep \/ Tick

SpecActivity == InitActivity /\ [][NextActivity]_vars

(* the application from start() on, the main loop one iteration at a time *)
InitLoop ==
    /\ n_bands = MaxCbBands
    /\ block_size = 2 * MaxCbBands
    /\ HANN_WINDOW = 0
    /\ InitStore
    /\ NoLevels
    /\ now = LoopStart
    /\ NoCalls
    /\ InitThreads
    /\ NoTicks
    /\ NoDuck
    /\ InitReader
    /\ feed = <<>>
    /\ rd_rest = <<>>

NextLoop ==
    \/ RlAcquire
    \/ RlPick
    \/ RlSetActive
    \/ RlSetError
    \/ MainLoopTick
    \/ RlSleep
    \/ RlInterrupt
    \/ RlShutdown
    \/ RlExit
    \/ AudioActive
    \/ StreamDies
    \/ Elapse

SpecLoop == InitLoop /\ [][NextLoop]_vars

(* ducking on a running application, the sink at any volume *)
InitDuck ==
    /\ n_bands = MaxCbBands
    /\ block_size = 2 * MaxCbBands
    /\ HANN_WINDOW = 0
    /\ InitStore
    /\ NoLevels
    /\ now = LoopStart
    /\ NoCalls
    /\ InitThreads
    /\ NoTicks
    /\ saved_volume = <<>>
    /\ ducked_until = 0
    /\ sink_volume \in Volumes
    /\ InitReader
    /\ feed = <<>>
    /\ rd_rest = <<>>

NextDuck ==
    \/ Duck
    \/ Unduck
    \/ MixerChanges
    \/ Elapse

SpecDuck == InitDuck /\ [][NextDuck]_vars

----------------------------------------------------------------------------
(* Claims *)

(* C1: in every state reachable by audio callbacks from the initial gain 1.0,
   the stored AGC gain lies in [agc_min_gain, agc_max_gain] *)
C1_GainInRange == agc_min_gain <= agc_gain /\ agc_gain <= agc_max_gain

(* a callback has raised the gain: only a frame whose raw target is above
   agc_max_gain does that *)
C1_GainRaised == calls > 0 /\ agc_gain > Unit

(* C2: every sample of the frame the callback hands to compute_levels has
   magnitude at most limit_threshold *)
C2_Limited == \A x \in FrameSamples(cb_limited) : Abs(x) <= limit_threshold

(* the limiter has cut a sample of a frame amplified with a gain above 1.0 *)
C2_Clipped ==
    /\ calls > 0
    /\ agc_gain > Unit
    /\ \E x \in FrameSamples(cb_limited) : Abs(x) = limit_threshold

AllZero(b) == \A i \in 1..Len(b.data) : \A c \in 1..b.chans : b.data[i][c] = 0

(* C3: for every band count and every block, compute_levels returns exactly
   n_bands values, each a number in [0,1] *)
C3_LevelsInRange ==
    lv_done =>
        /\ ~levels_out.raised
        /\ Len(levels_out.val) = n_bands
        /\ \A i \in 1..Len(levels_out.val) :
              0 <= levels_out.val[i] /\ levels_out.val[i] <= Unit

(* C4: compute_levels of an empty block or of a block of zeros returns n_bands
   zeros and raises no error *)
C4_SilenceIsZero ==
    (lv_done /\ AllZero(block)) => levels_out = Returned(Zeros(n_bands))

(* C5: every read and write of a field of the store by the callback or the
   main thread happens with the lock held, and a thread holds the lock only at
   the statement that copies or assigns the field *)
C5_LockedAccess ==
    /\ unlocked = {}
    /\ lock.owner = "cb" => cb_pc \in CbSites
    /\ lock.owner = "rl" => rl_pc \in RlSites

(* C6: the vector draw_levels works on is one that a single assignment stored
   (or the initial zeros), and it stays what it was when it was read, whatever
   the callback writes meanwhile *)
C6_WholeSnapshot ==
    /\ [](rl_pc = "draw" => rl_lv \in written)
    /\ [][rl_pc = "draw" => rl_lv' = rl_lv \/ rl_pc' # "draw"]_vars

(* the main thread draws a snapshot that the callback has replaced since *)
C6_SnapshotOutlived ==
    /\ rl_pc = "draw"
    /\ rl_lv # Zeros(n_bands)
    /\ levels_smooth # rl_lv

(* a thread is at a property of STATE and another thread owns the lock *)
CbWaits == cb_pc \in CbSites /\ lock.owner = "rl"

RlWaits == rl_pc \in RlSites /\ lock.owner = "cb"

(* C7: a thread waits for the lock only while its owner is at a statement that
   copies or assigns a field and then releases it, the main thread owns the
   lock nowhere else, and a callback that has started returns *)
C7_CallbackCompletes ==
    /\ [](/\ CbWaits => rl_pc \in RlSites
          /\ RlWaits => cb_pc \in CbSites
          /\ lock.owner = "rl" => rl_pc \in RlSites)
    /\ (cb_pc # "idle" ~> cb_pc = "idle")

(* the callback waits for the lock while the main thread owns it *)
C7_CallbackWaits == CbWaits /\ cb_pc = "write_levels"

(* the artist or title the writer put into an item of the stream *)
Sent == [asar_A |-> <<65>>, minm_T |-> <<84>>, asar_empty |-> <<>>, minm_empty |-> <<>>]

(* the stream is one complete core/asar item followed by one complete
   core/minm item, the reader has consumed it and get_track has returned *)
AsarThenMinmConsumed ==
    /\ Len(feed) = 2
    /\ feed[1] \in {"asar_A", "asar_empty"}
    /\ feed[2] \in {"minm_T", "minm_empty"}
    /\ rd_rest = <<>>
    /\ rd_pc = "idle"
    /\ Len(rd_log) = 2

(* C8: after the reader has consumed a stream of one complete core/asar item
   followed by one complete core/minm item, get_track returns exactly the
   artist and title of the two items, with a timestamp not earlier than the
   time the second item was processed *)
C8_AsarThenMinm ==
    AsarThenMinmConsumed =>
        /\ rd_result.artist = Sent[feed[1]]
        /\ rd_result.title = Sent[feed[2]]
        /\ rd_result.update >= rd_log[2].at

(* C9: while the bytes of the stream hold no start marker <item>, the buffer
   is at most 1024 long after every chunk *)
C9_BufferCapped ==
    Find(FeedBytes(feed), ITEM_OPEN, 1) = 0 => Len(buffer) <= TAIL_CAP

(* base64 as an encoder writes it: quads of the alphabet, the last one padded
   with at most two "=" *)
IsBase64(s) ==
    /\ Len(s) % 4 = 0
    /\ \A i \in 1..Len(s) :
          \/ B64Value(s[i]) < 64
          \/ /\ s[i] = 61
             /\ i >= Len(s) - 1
             /\ s[Len(s)] = 61

(* all three fields of the item are there and decode: type and code are an
   even number of hex digits, data is base64 *)
FieldsDecode(xml) ==
    /\ SearchHexField(xml, TYPE_OPEN, TYPE_CLOSE).found
    /\ SearchHexField(xml, CODE_OPEN, CODE_CLOSE).found
    /\ SearchData(xml).found
    /\ Len(SearchHexField(xml, TYPE_OPEN, TYPE_CLOSE).group) % 2 = 0
    /\ Len(SearchHexField(xml, CODE_OPEN, CODE_CLOSE).group) % 2 = 0
    /\ IsBase64(Strip(SearchData(xml).group))

(* the item's fields decode and its type and code are the bytes tc and c *)
IsItemOf(xml, tc, c) ==
    /\ FieldsDecode(xml)
    /\ FromHex(SearchHexField(xml, TYPE_OPEN, TYPE_CLOSE).group) = tc
    /\ FromHex(SearchHexField(xml, CODE_OPEN, CODE_CLOSE).group) = c

(* every complete item of a consumed stream has been handled *)
AllItemsHandled ==
    rd_rest = <<>> =>
        Len(rd_log) = Cardinality({i \in 1..Len(feed) : feed[i] \in ItemNames})

(* C10: a handled item changes the track state only when its fields decode and
   it is core/asar (the artist and the timestamp change) or core/minm (the
   title and the timestamp change); any other item leaves artist, title and
   timestamp as they were, and the items after it are handled all the same *)
C10_OnlyTrackItemsChange ==
    /\ \A k \in 1..Len(rd_log) :
          LET e == rd_log[k]
          IN  IF IsItemOf(e.xml, CORE, ASAR) THEN e.post.title = e.pre.title
              ELSE IF IsItemOf(e.xml, CORE, MINM) THEN e.post.artist = e.pre.artist
              ELSE e.post = e.pre
    /\ AllItemsHandled

(* a core/asar or core/minm item has been handled *)
TrackItemObserved ==
    \E k \in 1..Len(rd_log) :
        IsItemOf(rd_log[k].xml, CORE, ASAR) \/ IsItemOf(rd_log[k].xml, CORE, MINM)

(* C11: what get_track has returned is the sentinel (None, None, 0.0) exactly
   when no core/asar and no core/minm item has been handled, whatever the
   payload; otherwise it is the stored artist and title (the placeholder for
   the one never set) with the stored last_update *)
C11_SentinelIffNothingObserved ==
    (rd_pc = "idle" /\ pipe = "Open") =>
        IF ~TrackItemObserved
        THEN rd_result = Track(None, None, 0)
        ELSE /\ rd_result.artist =
                    IF last_artist = None THEN UNKNOWN_ARTIST ELSE last_artist
             /\ rd_result.title =
                    IF last_title = None THEN UNKNOWN_TRACK ELSE last_title
             /\ rd_result.update = last_update

(* the step is an iteration of the main loop *)
Ticked == rl_pc = "tick" /\ (rl_pc' \in {"sleep", "pick"} \/ failed_run' # failed_run)

(* the iteration saw recent audio and a fresh, known track *)
InPeriod(d) == d.recent /\ d.fresh /\ d.track # "None"

(* C12 as stated: of two iterations in a row that both see recent audio and a
   fresh track, the second announces exactly when its string differs from the
   one the first saw *)
C12_AnnouncedOncePerChange ==
    [][(Ticked /\ InPeriod(tick_did) /\ InPeriod(tick_did'))
          => (tick_did'.announced <=> tick_did'.track # tick_did.track)]_vars

(* C12: of two iterations in a row that both see recent audio and a fresh
   track, the second announces exactly when its string differs from the one
   the first saw, unless the first was cut short by an error in its
   announcement: then the same string is announced again *)
C12_AnnouncedOnceUnlessCutShort ==
    [][(Ticked /\ InPeriod(tick_did) /\ InPeriod(tick_did'))
          => IF tick_did.failed
             THEN tick_did'.track = tick_did.track => tick_did'.announced
             ELSE tick_did'.announced <=> tick_did'.track # tick_did.track]_vars

(* an iteration in such a period has seen the string already shown and has
   announced nothing *)
C12_SameStringAgain ==
    /\ InPeriod(tick_did)
    /\ ~tick_did.announced
    /\ tick_did.track = last_shown_track

(* C13: the no-audio indicator has been displayed at most once since an
   iteration saw recent audio, and an iteration that finds audio inactive for
   longer than no_audio_timeout leaves it displayed exactly once since then:
   the first such iteration displays it, the following ones do not *)
C13_NoAudioShownOnce ==
    /\ [](x_shown_count <= 1)
    /\ [][(Ticked /\ NoAudioTimeout(now)) => x_shown_count' = 1]_vars

(* C14: after idle_ticks iterations without recent audio the cursor is
   (idle_ticks * 4) mod 64, a valid index of SPINNER_PATH; iterations with
   recent audio and audio callbacks leave it as it is *)
C14_AmbientCursor ==
    /\ [](/\ ambient_index = (idle_ticks * AMBIENT_STEP) % SPINNER_LEN
          /\ ambient_index \in 0..(SPINNER_LEN - 1))
    /\ [][((Ticked /\ AudioRecent(now)) \/ audio_last_active' # audio_last_active)
             => ambient_index' = ambient_index]_vars

(* the cursor has gone round the path and an iteration with recent audio has
   run since *)
C14_CursorWrapped ==
    /\ idle_ticks * AMBIENT_STEP > SPINNER_LEN
    /\ ambient_index > 0
    /\ tick_did.recent

(* start_audio_stream returns to its caller *)
StartReturns == rl_pc \in {"init", "pick", "set_active"} /\ rl_pc' \in {"tick", "sleep"}

(* C15: start_audio_stream never has more than audio_max_retries failed
   attempts behind it; it returns the stream from the first attempt that
   succeeds, None after audio_max_retries failed ones, and no failure of an
   attempt reaches the caller as an error *)
C15_BoundedStart ==
    /\ [](attempt <= audio_max_retries)
    /\ [][StartReturns =>
             IF rl_pc = "set_active"
             THEN stream' = "stream" /\ stream_active' /\ attempt < audio_max_retries
             ELSE stream' = "None" /\ attempt = audio_max_retries]_vars
    /\ [][(rl_pc \in StartPcs \cup {"init"}) => (rl_pc' \notin {"error"})]_vars

(* start_audio_stream has returned None after audio_max_retries failed
   attempts, one of them with an error of the stream *)
C15_GaveUp ==
    /\ rl_pc = "tick"
    /\ stream = "None"
    /\ attempt = audio_max_retries
    /\ last_error = "error"

(* C16: once an attempt of the start sequence has failed, whatever made it
   fail, last_error holds a recorded failure before the next attempt begins *)
C16_FailureRecorded == attempt > 0 => last_error = "error"

(* C17: an iteration that fails, below the error ceiling, while the stream
   that start_audio_stream returned is dead finds stream_active false and goes
   on to start_audio_stream *)
C17_RestartAfterDeath ==
    [][(/\ Ticked
        /\ tick_did'.failed
        /\ stream # "None"
        /\ ~stream_running
        /\ ~TooManyErrors(consecutive_errors'))
          => (~stream_active /\ rl_pc' = "pick" /\ rl_ret' = "restart")]_vars

(* C18: the loop goes to _shutdown from an iteration exactly when that
   iteration is the 11th in a row to fail; an iteration without error sets
   consecutive_errors to 0; there are never more than 11 failed iterations in
   a row, and after the 11th the loop is over *)
C18_ErrorCeiling ==
    /\ [](failed_run <= MAX_ERRORS + 1)
    /\ [](failed_run = MAX_ERRORS + 1 => rl_pc \in {"shutdown", "done"})
    /\ [][Ticked => (rl_pc' = "shutdown" <=> failed_run' = MAX_ERRORS + 1)]_vars
    /\ [][(Ticked /\ ~tick_did'.failed) => consecutive_errors' = 0]_vars

(* the loop has ended at the ceiling, after an iteration without error had
   run before the failing ones *)
C18_CeilingReached ==
    /\ rl_pc = "shutdown"
    /\ failed_run = MAX_ERRORS + 1
    /\ idle_ticks > 0

(* C19: however the run ends once start() was called, it ends through
   _shutdown, which leaves the stream stopped when there is one *)
C19_ShutdownOnEveryExit ==
    [][rl_pc' = "done" =>
          /\ rl_pc = "shutdown"
          /\ stream # "None" => ~stream_running']_vars

(* C20: an iteration announces the track exactly when audio is recent, the
   metadata is fresh, a track is known and the string differs from
   last_shown_track or no_audio_shown is set; an iteration that announces
   leaves no_audio_shown reset *)
C20_AnnounceIff ==
    [][Ticked =>
          /\ tick_did'.announced <=>
                /\ AudioRecent(now)
                /\ tick_did'.fresh
                /\ tick_did'.track # "None"
                /\ (tick_did'.track # last_shown_track \/ no_audio_shown)
          /\ tick_did'.announced => ~no_audio_shown']_vars

(* C21: the pipe is absent or open; it becomes open only by the open of a
   get_track call; a call whose read loop ends on end-of-stream or on an error
   leaves it absent, and it becomes absent in no other way; a call without a
   pipe that cannot open one returns the stored track; a call after the pipe
   was lost opens it again when the open succeeds *)
C21_PipeStates ==
    /\ [](pipe \in {"None", "Open"} /\ rd_pc \in {"idle", "select"})
    /\ [][(pipe = "None" /\ pipe' = "Open") => (rd_pc = "idle" /\ rd_pc' = "select")]_vars
    /\ [][(rd_pc = "select" /\ rd_pc' = "idle" /\ rd_failed') => pipe' = "None"]_vars
    /\ [][(pipe = "Open" /\ pipe' = "None")
             => (rd_pc = "select" /\ rd_pc' = "idle" /\ rd_failed')]_vars
    /\ [][(rd_pc = "idle" /\ pipe = "None" /\ rd_pc' = "idle")
             => /\ pipe' = "None"
                /\ rd_result' = TrackResult(Track(last_artist, last_title, last_update))]_vars
    /\ [][(rd_pc = "idle" /\ pipe = "None" /\ rd_pc' = "select") => pipe' = "Open"]_vars

(* a call has opened the pipe again after the read loop lost it, items
   handled before *)
C21_Reopened ==
    /\ rd_failed
    /\ pipe = "Open"
    /\ rd_pc = "select"
    /\ rd_log # <<>>

(* the bytes read from the pipe so far *)
Consumed == SubSeq(FeedBytes(feed), 1, Len(FeedBytes(feed)) - Len(rd_rest))

IsSuffix(s, whole) ==
    /\ Len(s) <= Len(whole)
    /\ s = SubSeq(whole, Len(whole) - Len(s) + 1, Len(whole))

(* every byte of the stream is ASCII: the text of a chunk is its bytes *)
AsciiFeed == \A i \in 1..Len(FeedBytes(feed)) : FeedBytes(feed)[i] < 128

(* C22: after every chunk the buffer holds no start marker with an end marker
   after it; a buffer that holds a start marker begins with it and, the text
   of the stream being its bytes, is all that was read from that marker on *)
C22_IncompleteItemKept ==
    Find(buffer, ITEM_OPEN, 1) # 0 =>
        /\ Find(buffer, ITEM_OPEN, 1) = 1
        /\ Find(buffer, ITEM_CLOSE, 1) = 0
        /\ AsciiFeed => IsSuffix(buffer, Consumed)

(* bytes outside any item came first and are gone: the buffer is the
   beginning of an item, the rest of it still to be read *)
C22_GarbageDiscarded ==
    /\ feed # <<>>
    /\ feed[1] = "x"
    /\ rd_log = <<>>
    /\ Find(buffer, ITEM_OPEN, 1) = 1
    /\ Len(buffer) > Len(ITEM_OPEN)
    /\ rd_rest # <<>>

(* the number of magnitude bins compute_levels has for the block, DC skipped *)
Bins == Len(Mag(Windowed(Mono(block))))

(* C23: for every number of bins and every band count the slices the bands
   average are n_bands non-empty slices inside the spectrum, one after the
   other from bin 0 to the last bin, the first n_bands - 1 of equal size *)
C23_BandsPartition ==
    (lv_done /\ Bins > 0) =>
        /\ BandStart(0, Bins, n_bands) = 0
        /\ BandEnd(n_bands - 1, Bins, n_bands) = Bins
        /\ \A i \in 0..(n_bands - 1) :
              /\ BandStart(i, Bins, n_bands) < BandEnd(i, Bins, n_bands)
              /\ BandEnd(i, Bins, n_bands) <= Bins
        /\ \A i \in 0..(n_bands - 2) :
              /\ BandEnd(i, Bins, n_bands) = BandStart(i + 1, Bins, n_bands)
              /\ BandEnd(i, Bins, n_bands) - BandStart(i, Bins, n_bands)
                    = BandEnd(0, Bins, n_bands)

(* the gain g2 a callback leaves, from the gain g it found and the RMS of its
   frame: between g and the clamped target, one attack or release step from g *)
GainMoves(g, g2, rms) ==
    IF rms * 100 > 1
    THEN LET target == Max(Min(Trunc(agc_target_rms * 10 * Unit, rms), agc_max_gain),
                           agc_min_gain)
             coeff  == IF target > g THEN agc_attack ELSE agc_release
         IN  /\ Min(g, target) <= g2
             /\ g2 <= Max(g, target)
             /\ Abs(target - g2) <= Abs(target - g)
             /\ g2 = g + Trunc(coeff * (target - g), Unit)
    ELSE g2 = g

(* C24: a callback on a frame with RMS above 1e-6 leaves the gain between the
   gain it found and the clamped target, an attack step up or a release step
   down; a callback on a frame at or below the floor leaves the gain alone *)
C24_GainTowardsTarget ==
    [][calls' = calls + 1 =>
          \E f \in CbFrames :
              /\ audio_callback(f)
              /\ GainMoves(agc_gain, agc_gain', Rms(ClipUnit(f)))]_vars

(* callbacks have released the gain below 1.0, the floor of the clamp not
   reached *)
C24_Released == calls > 0 /\ agc_min_gain < agc_gain /\ agc_gain < Unit

(* C25: the stored vector always has n_bands entries, each in [0,1]; it
   changes only by the assignment of line 478, which stores smoothing times
   the vector stored until then plus (1 - smoothing) times the new levels *)
C25_SmoothedLevels ==
    /\ [](/\ Len(levels_smooth) = n_bands
          /\ \A i \in 1..Len(levels_smooth) :
                0 <= levels_smooth[i] /\ levels_smooth[i] <= Unit)
    /\ [][levels_smooth' # levels_smooth => cb_pc = "write_levels"]_vars
    /\ [][(cb_pc = "write_levels" /\ cb_pc' # "write_levels") =>
             levels_smooth' =
                 [i \in 1..n_bands |->
                     (smoothing * levels_smooth[i] + (Unit - smoothing) * cb_lev[i])
                         \div Unit]]_vars

(* the callback has smoothed onto a vector an earlier callback stored *)
C25_SmoothedTwice ==
    /\ Cardinality(written) >= 3
    /\ \E i \in 1..Len(levels_smooth) : 0 < levels_smooth[i] /\ levels_smooth[i] < Unit

(* C26: the silence flag and audio_recent are computed apart: time going by,
   which is what ends audio_recent, leaves the flag as it is, and a callback
   that sets the flag leaves the timestamp audio_recent is computed from *)
C26_FlagAndRecentApart ==
    /\ [][now' # now => silence_detected' = silence_detected]_vars
    /\ [][(calls' = calls + 1 /\ silence_detected')
             => audio_last_active' = audio_last_active]_vars
    /\ [](seen \subseteq BOOLEAN \X BOOLEAN)

(* callbacks have left all four combinations of the flag and audio_recent *)
C26_AllFourSeen == seen = BOOLEAN \X BOOLEAN

(* np.mean(levels) against the two thresholds of lines 481 and 485 *)
MeanOver(levels) == SumSeq(levels) * 100 > Len(levels) * Unit

MeanUnder(levels) == SumSeq(levels) < Len(levels)

(* C29: the timestamp is assigned only by a callback whose mean level is above
   0.01, which then clears the silence flag; the flag is set only by a
   callback whose mean level is below 0.001; a callback whose mean level is
   in [0.001, 0.01] ends after the assignment of the levels *)
C29_ActivityThresholds ==
    /\ [][audio_last_active' # audio_last_active
             => (cb_pc = "write_active" /\ MeanOver(cb_lev) /\ audio_last_active' = now)]_vars
    /\ [][silence_detected' # silence_detected
             => /\ cb_pc = "write_silence"
                /\ IF silence_detected' THEN MeanUnder(cb_lev) ELSE MeanOver(cb_lev)]_vars
    /\ [][(cb_pc = "write_levels" /\ cb_pc' # "write_levels")
             => cb_pc' = IF MeanOver(cb_lev) THEN "write_active"
                         ELSE IF MeanUnder(cb_lev) THEN "write_silence" ELSE "idle"]_vars
    /\ [][(cb_pc = "write_active" /\ cb_pc' # "write_active")
             => (audio_last_active' = now /\ cb_pc' = "write_silence")]_vars
    /\ [][(cb_pc = "write_silence" /\ cb_pc' # "write_silence")
             => silence_detected' = MeanUnder(cb_lev)]_vars

(* a callback whose mean level is between the thresholds is over: it has
   stored its levels and left the flag set and the timestamp recent *)
C29_BetweenThresholds ==
    /\ cb_pc = "idle"
    /\ calls = 0
    /\ levels_smooth # Zeros(n_bands)
    /\ SumSeq(levels_smooth) * 100 <= Len(levels_smooth) * Unit
    /\ silence_detected
    /\ audio_last_active = now

(* C27: ducking in progress is a saved volume together with an expiry, both
   present or both absent; it begins only with the saved volume equal to the
   sink's volume at that moment and the expiry duck_duration ahead of now; it
   does not change while it lasts; it ends only after the expiry has passed,
   and then the sink is back at the saved volume *)
C27_DuckState ==
    /\ [](saved_volume = <<>> <=> ducked_until = 0)
    /\ [][(saved_volume = <<>> /\ saved_volume' # <<>>)
            => /\ saved_volume' = <<sink_volume>>
               /\ ducked_until' = 3 * now + duck_duration]_vars
    /\ [][(saved_volume # <<>> /\ saved_volume' # <<>>)
            => /\ saved_volume' = saved_volume
               /\ ducked_until' = ducked_until]_vars
    /\ [][(saved_volume # <<>> /\ saved_volume' = <<>>)
            => /\ 3 * now > ducked_until
               /\ sink_volume' = saved_volume[1]]_vars

C27_DuckExpired ==
    /\ saved_volume # <<>>
    /\ saved_volume[1] \in Volumes \ {0, 100}
    /\ 3 * now > ducked_until
    /\ sink_volume = (saved_volume[1] * duck_level) \div 10

(* C28: however an ASCII stream is cut into reads, what has been handled after
   any number of reads is what one read of the same bytes handles: the same
   items in the same order, and the same stored artist and title *)
InOneChunk == ProcessItems(Consumed, Track(None, None, 0), <<>>, now)

C28_SplitIndependent ==
    AsciiFeed =>
        /\ [k \in 1..Len(rd_log) |-> rd_log[k].xml]
             = [k \in 1..Len(InOneChunk.log) |-> InOneChunk.log[k].xml]
        /\ last_artist = InOneChunk.st.artist
        /\ last_title = InOneChunk.st.title

C28_CutInsideItems ==
    /\ AsciiFeed
    /\ Len(rd_log) = 1
    /\ rd_rest # <<>>
    /\ last_artist # None \/ last_title # None
    /\ buffer # <<>>
    /\ Len(buffer) < Len(ITEM_OPEN)
    /\ buffer = SubSeq(ITEM_OPEN, 1, Len(buffer))

=============================================================================
